---- MODULE Spec2Model ----
(***************************************************************************)
(* The version-aware cache lifecycle of the Totem kiosk service worker:    *)
(* the pointer (CACHE_NAME, CURRENT_VERSION), the Cache Storage, the       *)
(* install / activate handlers, the message handler (CHECK_VERSION,        *)
(* UPDATE_VERSION) and updateCacheForNewVersion.                           *)
(*                                                                         *)
(* A step of a flow is one awaited operation (a network fetch, a Cache     *)
(* Storage call, clients.matchAll) together with the synchronous code that *)
(* runs when it settles, up to the next await.  Steps of different flows   *)
(* interleave freely under Spec; under SpecSeq a flow starts only when no  *)
(* other flow is in progress.  SpecSeqV2 is SpecSeq for the second variant *)
(* of the worker, whose updateCacheForNewVersion differs.                  *)
(***************************************************************************)
EXTENDS Integers, Sequences, FiniteSets, TLC

VARIABLES
  CACHE_NAME,       \* let CACHE_NAME
  CURRENT_VERSION,  \* let CURRENT_VERSION (Null = null)
  cacheStorage,     \* the origin's Cache Storage: caches, in creation order
  origin,           \* what the network answers: published version and faults
  storageUp,        \* FALSE while caches.open / cache.put reject
  published,        \* number of versions published since the start
  swState,          \* lifecycle of the worker
  controlled,       \* clients that clients.matchAll() returns
  inbox,            \* per client, the messages posted to it and not yet read
  handled,          \* number of messages and fetch events received so far
  task              \* the flows: install, activate and the message handlers

vars == <<CACHE_NAME, CURRENT_VERSION, cacheStorage, origin, storageUp,
          published, swState, controlled, inbox, handled, task>>

---------------------------------------------------------------------------
(* Bounds of the model *)

NumFlows == 2        \* message handlers that can be in progress together
MaxMessages == 2     \* messages the worker receives in one behaviour
MaxPublish == 1      \* publications of a new version in one behaviour
NumClients == 1      \* open pages of the kiosk
NumServes == 1       \* fetch events that can be in progress together

Null == "<null>"     \* JavaScript null / undefined

---------------------------------------------------------------------------
(* Strings, as JavaScript computes on them *)

\* String.prototype.startsWith
StartsWith(s, p) == Len(s) >= Len(p) /\ SubSeq(s, 1, Len(p)) = p

\* String.prototype.endsWith
EndsWith(s, p) == Len(s) >= Len(p) /\ SubSeq(s, Len(s) - Len(p) + 1, Len(s)) = p

\* String.prototype.includes
Includes(s, p) ==
  \E i \in 1..(Len(s) - Len(p) + 1) : SubSeq(s, i, i + Len(p) - 1) = p

\* The characters of the names, in increasing UTF-16 code unit order
Alphabet == "-./0123456789_abcdefghijklmnopqrstuvwxyz"

CodeUnitRank(c) == CHOOSE i \in 1..Len(Alphabet) : SubSeq(Alphabet, i, i) = c

\* a < b as Array.prototype.sort() compares two strings: by code units
RECURSIVE StrLess(_, _)
StrLess(a, b) ==
  IF a = "" THEN b # ""
  ELSE IF b = "" THEN FALSE
  ELSE IF Head(a) = Head(b) THEN StrLess(Tail(a), Tail(b))
  ELSE CodeUnitRank(Head(a)) < CodeUnitRank(Head(b))

\* names.sort().reverse()[0]
SortReverseFirst(names) ==
  CHOOSE n \in names : \A m \in names : m = n \/ StrLess(m, n)

\* the elements of a sequence
Range(s) == {s[i] : i \in DOMAIN s}

---------------------------------------------------------------------------
(* Names and the asset manifest *)

CachePrefix == "totem-cache-"

\* 'totem-cache-' + version
CacheNameFor(version) == CachePrefix \o version

InitialCacheName == "totem-cache-v9"   \* let CACHE_NAME = 'totem-cache-v9'
DefaultCacheName == "totem-cache-v1"   \* the fallback of initializeCacheName

\* the version identifiers the origin publishes and a trigger can name
Versions == {"20241201120000", "20250301093000"}

\* getBasePath(): the path of the registration scope, without its last '/'
ScopePath == "/totem-test/"
getBasePath == SubSeq(ScopePath, 1, Len(ScopePath) - 1)

getAssets ==
  << getBasePath \o "/",
     getBasePath \o "/index.html",
     getBasePath \o "/style.css",
     getBasePath \o "/main.js",
     getBasePath \o "/media/video2.mp4",
     getBasePath \o "/media/image2.png",
     getBasePath \o "/manifest.json",
     getBasePath \o "/version.json" >>

VersionUrl == getBasePath \o "/version.json"

essentialFiles == <<"index.html", "main.js", "style.css", "version.json">>

---------------------------------------------------------------------------
(* The network *)

\* Assets of the manifest as a set
Assets == Range(getAssets)

\* the asset the essential-files check looks up for a file name:
\* assets.find(a => a.includes(file))
AssetFor(file) ==
  LET hits == SelectSeq(getAssets, LAMBDA a : Includes(a, file))
  IN  IF hits = <<>> THEN Null ELSE Head(hits)

EssentialAssets == {AssetFor(essentialFiles[i]) : i \in DOMAIN essentialFiles}

\* What the origin can be doing while a flow runs: unreachable (every fetch
\* rejects), answering 404 for some assets, or serving a descriptor without a
\* version.
NoFault == [offline |-> FALSE, malformed |-> FALSE, missing |-> {}]
Faults ==
  { [NoFault EXCEPT !.missing = m] :
      m \in { {}, {getBasePath \o "/media/video2.mp4"}, EssentialAssets,
              Assets \ {getBasePath \o "/style.css"} } }
  \cup { [NoFault EXCEPT !.offline = TRUE], [NoFault EXCEPT !.malformed = TRUE] }

\* A response: status 0 stands for a fetch that rejected (no response at all);
\* the body of an asset is the published version it was taken from, the body
\* of the descriptor is its version field ("" when it has none).
Rejection == [status |-> 0, body |-> ""]
Rejected(r) == r.status = 0
\* a test that takes every response for an ok one
AnyStatus(r) == TRUE
Ok(r) == r.status \in 200..299          \* Response.ok

\* fetch(url), for the path of url (query parameters do not select the resource)
Fetch(url) ==
  IF origin.net.offline THEN Rejection
  ELSE IF url \in origin.net.missing THEN [status |-> 404, body |-> ""]
  ELSE [status |-> 200,
        body |-> IF url = VersionUrl /\ origin.net.malformed
                 THEN "" ELSE origin.version]

fetchVersion ==
  LET response == Fetch(VersionUrl)
  IN  IF Rejected(response) \/ ~Ok(response) THEN Null
      ELSE IF response.body = "" THEN Null      \* data.version || null
      ELSE response.body

---------------------------------------------------------------------------
(* Cache Storage *)

NoEntries == [u \in {} |-> Rejection]

Names(store) == {store[i].name : i \in DOMAIN store}

\* caches.keys(): the names, in creation order
CacheKeys(store) == [i \in DOMAIN store |-> store[i].name]

HasCache(store, name) == name \in Names(store)

CacheNamed(store, name) == store[CHOOSE i \in DOMAIN store : store[i].name = name]

\* caches.open(name): creates the cache when there is none of that name
CachesOpen(store, name) ==
  IF HasCache(store, name) THEN store
  ELSE Append(store, [name |-> name, entries |-> NoEntries])

\* caches.delete(name)
CachesDelete(store, name) == SelectSeq(store, LAMBDA c : c.name # name)

\* delete every cache named in a list: Promise.all(list.map(caches.delete))
CachesDeleteAll(store, names) ==
  SelectSeq(store, LAMBDA c : c.name \notin Range(names))

\* a lookup that finds nothing
CachesMatchNothing(store, url) == <<>>

\* caches.match(request): the first cache, in creation order, that holds an
\* entry for the request; <<>> when none does
CachesMatch(store, url) ==
  LET hits == SelectSeq(store, LAMBDA c : url \in DOMAIN c.entries)
  IN  IF hits = <<>> THEN <<>>
      ELSE <<[name |-> Head(hits).name, response |-> Head(hits).entries[url]]>>

\* an opened cache that has been deleted since: writes to it are lost
Orphaned == "<deleted>"

\* cache.put(url, response) on the opened cache `handle`
CachePut(store, handle, url, response) ==
  [i \in DOMAIN store |->
     IF store[i].name = handle
     THEN [store[i] EXCEPT !.entries =
             [u \in DOMAIN @ \cup {url} |-> IF u = url THEN response ELSE @[u]]]
     ELSE store[i]]

\* the prefixed names among a list of names
TotemCaches(names) == SelectSeq(names, LAMBDA n : StartsWith(n, CachePrefix))

getCachedVersion(store) ==
  LET totemCaches == TotemCaches(CacheKeys(store))
  IN  IF totemCaches = <<>> THEN Null
      ELSE LET latestCache == SortReverseFirst(Range(totemCaches))
           IN  IF Len(latestCache) > Len(CachePrefix)      \* /totem-cache-(.+)/
               THEN SubSeq(latestCache, Len(CachePrefix) + 1, Len(latestCache))
               ELSE LET entries == CacheNamed(store, latestCache).entries
                    IN  IF "/version.json" \in DOMAIN entries
                           /\ entries["/version.json"].body # ""
                        THEN entries["/version.json"].body
                        ELSE Null

\* a check that takes any known version of the origin for an update
checkForAny(onlineVersion, cachedVersion) == onlineVersion # Null

\* a check that takes only a later version for an update
checkForNewer(onlineVersion, cachedVersion) ==
  IF onlineVersion = Null THEN FALSE
  ELSE IF cachedVersion = Null THEN TRUE
  ELSE StrLess(cachedVersion, onlineVersion)

\* checkForUpdate, as a function of what its two probes returned
checkForUpdate(onlineVersion, cachedVersion) ==
  IF onlineVersion = Null THEN FALSE
  ELSE IF cachedVersion = Null THEN TRUE
  ELSE onlineVersion # cachedVersion

\* a gate that asks for every essential file, where the code asks for one
hasEveryEssential(success) ==
  \A i \in DOMAIN essentialFiles : AssetFor(essentialFiles[i]) \in success

\* the essential-files gate of updateCacheForNewVersion, on the set of assets
\* whose download reported success
hasEssential(success) ==
  \E i \in DOMAIN essentialFiles : AssetFor(essentialFiles[i]) \in success

\* a cleanup that picks every generation, the current one included
OldCachesAll(names, keep) ==
  SelectSeq(names, LAMBDA name : StartsWith(name, CachePrefix))

\* a cleanup that picks every cache but the current one, whatever its name
OldCachesAnyName(names, keep) == SelectSeq(names, LAMBDA name : name # keep)

\* a cleanup that picks nothing
OldCachesNone(names, keep) == SelectSeq(names, LAMBDA name : FALSE)

\* the caches the activate handler and the update pick for deletion
OldCaches(names, keep) ==
  SelectSeq(names, LAMBDA name : StartsWith(name, CachePrefix) /\ name # keep)

---------------------------------------------------------------------------
(* Flows *)

Clients == 1..NumClients

\* the install handler, the activate handler, and the message handlers
InstallFlow == 0
ActivateFlow == -1
MessageIds == 1..NumFlows
\* the fetch handler's tasks
ServeIds == {-(1 + k) : k \in 1..NumServes}
TaskIds == {InstallFlow, ActivateFlow} \cup MessageIds \cup ServeIds

\* no request, no response
NoRequest == [method |-> "", url |-> ""]
NoResponse == [status |-> -1, body |-> ""]

\* the pointer, the storage and the notifications, as a flow finds them
Snapshot ==
  [name |-> CACHE_NAME, version |-> CURRENT_VERSION,
   store |-> cacheStorage, inbox |-> inbox]

NoSnapshot == [name |-> Null, version |-> Null, store |-> <<>>, inbox |-> <<>>]

Idle ==
  [msg |-> "none",        \* the event being handled
   pc |-> "idle",         \* the await the flow is suspended at
   remote |-> Null,       \* onlineVersion of the last fetchVersion()
   local |-> Null,        \* cachedVersion of the last getCachedVersion()
   hasUpdate |-> FALSE,   \* what checkForUpdate() resolved to
   target |-> Null,       \* newVersion of updateCacheForNewVersion
   cacheName |-> Null,    \* the name given to caches.open
   handle |-> Null,       \* the opened cache (cache / newCache)
   next |-> 0,            \* index of the next asset to download
   success |-> {},        \* assets whose download reported success: true
   oldCaches |-> <<>>,    \* the names picked for deletion
   outcome |-> "none",    \* of the update: committed, abandoned or failed
   request |-> NoRequest, \* event.request of a fetch event
   network |-> NoResponse,  \* networkResponse of the fetch handler
   response |-> NoResponse, \* what event.respondWith was resolved with
   source |-> "none",     \* where that response came from: network, cache,
                          \* synthetic (new Response) or none
   servedFrom |-> Null,   \* the cache caches.match found the response in
   wroteTo |-> Null,      \* the cache the response was put in
   port |-> FALSE,        \* event.ports[0] was supplied
   acks |-> <<>>,         \* messages posted on that port
   pre |-> NoSnapshot,    \* the state the flow started from
   before |-> NoSnapshot] \* the state updateCacheForNewVersion was called in

InProgress(t) == task[t].pc \notin {"idle", "done"}
Quiet == \A t \in TaskIds : ~InProgress(t)

\* the flows after flow t has taken a step to record r in which it deleted the
\* caches named in `deleted`: every flow that holds one of them open now
\* holds an orphan
Stepped(t, r, deleted) ==
  [u \in TaskIds |->
     LET f == IF u = t THEN r ELSE task[u]
     IN  IF f.handle \in deleted THEN [f EXCEPT !.handle = Orphaned] ELSE f]

\* the record of flow t becomes r
Becomes(t, r) == task' = Stepped(t, r, {})

\* a flow that has finished is forgotten when the next message arrives, and
\* the clients have read what it posted
Retired(t) == task[t].pc = "done"

\* the slot of the next message
FreeSlot == CHOOSE t \in MessageIds :
              /\ ~InProgress(t)
              /\ \A u \in MessageIds : u < t => InProgress(u)

Unread(box) == SelectSeq(box, LAMBDA m : InProgress(m.by))

\* a message arrives and its handler starts as flow FreeSlot with record r
Delivered(r) ==
  /\ handled < MaxMessages
  /\ handled' = handled + 1
  /\ \E t \in MessageIds : ~InProgress(t)
  /\ task' = [u \in TaskIds |->
                IF u = FreeSlot THEN r
                ELSE IF Retired(u) THEN Idle
                ELSE task[u]]
  /\ inbox' = [c \in Clients |-> Unread(inbox[c])]

\* clients.matchAll() followed by client.postMessage(m) for each client
PostAll(m) ==
  inbox' = [c \in Clients |->
              IF c \in controlled THEN Append(inbox[c], m) ELSE inbox[c]]

\* the notifications, each with the flow that posted it
CacheUpdated(version, by) ==
  [type |-> "CACHE_UPDATED", version |-> version, success |-> TRUE, by |-> by]
CacheUpdateFailed(by) == [type |-> "CACHE_UPDATE_FAILED", by |-> by]
UpdateAvailable(version, by) ==
  [type |-> "UPDATE_AVAILABLE", version |-> version, by |-> by]

\* the conditions a flow can run under: a fault of the network, or the
\* durable storage being unavailable
Conditions ==
  { [net |-> f, storageUp |-> TRUE] : f \in Faults }
  \cup { [net |-> NoFault, storageUp |-> FALSE] }

\* the conditions change when a flow begins
ConditionsChange ==
  \E c \in Conditions :
    /\ origin' = [origin EXCEPT !.net = c.net]
    /\ storageUp' = c.storageUp

InitialStorages ==
  LET older == CHOOSE v \in Versions : \A w \in Versions : w = v \/ StrLess(v, w)
      generation ==
        [name |-> CacheNameFor(older),
         entries |-> [u \in Assets |-> [status |-> 200, body |-> older]]]
      foreign ==
        [name |-> "kiosk-fonts",
         entries |-> [u \in {"/fonts/kiosk.woff2"} |-> [status |-> 200, body |-> "font"]]]
  IN  { <<>>, <<foreign>>, <<generation>>, <<generation, foreign>> }

\* the worker's script has been evaluated; initialName is the literal that
\* CACHE_NAME is declared with
Start(initialName) ==
  /\ CACHE_NAME = initialName
  /\ CURRENT_VERSION = Null
  /\ cacheStorage \in InitialStorages
  /\ origin \in [version : Versions, net : {NoFault}]
  /\ storageUp = TRUE
  /\ published = 0
  /\ swState = "parsed"
  /\ controlled = {}
  /\ inbox = [c \in Clients |-> <<>>]
  /\ handled = 0
  /\ task = [t \in TaskIds |-> Idle]

Init == Start(InitialCacheName)

---------------------------------------------------------------------------
(* The environment *)

\* a flow is between the two version probes of the CHECK_VERSION handler
BetweenProbes == \E t \in MessageIds : task[t].pc \in {"c_local", "c_probe2"}

\* a new version is published at the origin: all its files at once, between
\* two flows or between the probes of a check
Publish ==
  /\ published < MaxPublish
  /\ Quiet \/ BetweenProbes
  /\ \E v \in Versions \ {origin.version} : origin' = [origin EXCEPT !.version = v]
  /\ published' = published + 1
  /\ UNCHANGED <<CACHE_NAME, CURRENT_VERSION, cacheStorage, storageUp,
                 swState, controlled, inbox, task, handled>>

---------------------------------------------------------------------------
(* initializeCacheName, shared by install and activate *)

\* an initialisation that falls back to the default name whenever the origin
\* gives no version
initializeDefaultOffline(onlineVersion, cachedVersion) ==
  IF onlineVersion # Null
  THEN /\ CURRENT_VERSION' = onlineVersion
       /\ CACHE_NAME' = CacheNameFor(onlineVersion)
  ELSE /\ CACHE_NAME' = DefaultCacheName
       /\ UNCHANGED CURRENT_VERSION

\* the assignments of initializeCacheName once its probes have returned
\* onlineVersion and (when that is null) cachedVersion
initializeCacheName(onlineVersion, cachedVersion) ==
  IF onlineVersion # Null
  THEN /\ CURRENT_VERSION' = onlineVersion
       /\ CACHE_NAME' = CacheNameFor(onlineVersion)
  ELSE IF cachedVersion # Null
  THEN /\ CURRENT_VERSION' = cachedVersion
       /\ CACHE_NAME' = CacheNameFor(cachedVersion)
  ELSE /\ CACHE_NAME' = DefaultCacheName
       /\ UNCHANGED CURRENT_VERSION

\* fetch one asset and store the response when it is ok: the body of the
\* per-asset download of install and of updateCacheForNewVersion
Downloaded(asset) ==
  LET response == Fetch(asset)
  IN  ~Rejected(response) /\ Ok(response) /\ storageUp

---------------------------------------------------------------------------
(* The install handler *)

InstallBegin ==
  /\ swState = "parsed"
  /\ swState' = "installing"
  /\ ConditionsChange
  /\ Becomes(InstallFlow, [Idle EXCEPT !.msg = "install", !.pc = "i_probe",
                                       !.pre = Snapshot])
  /\ UNCHANGED <<CACHE_NAME, CURRENT_VERSION, cacheStorage, published,
                 controlled, inbox, handled>>

\* await fetchVersion() of initializeCacheName
InstallProbe ==
  LET me == task[InstallFlow]
      onlineVersion == fetchVersion
  IN  /\ me.pc = "i_probe"
      /\ IF onlineVersion # Null
         THEN /\ initializeCacheName(onlineVersion, Null)
              /\ Becomes(InstallFlow,
                   [me EXCEPT !.remote = onlineVersion, !.pc = "i_open",
                              !.cacheName = CACHE_NAME'])
         ELSE /\ Becomes(InstallFlow, [me EXCEPT !.remote = Null, !.pc = "i_local"])
              /\ UNCHANGED <<CACHE_NAME, CURRENT_VERSION>>
      /\ UNCHANGED <<cacheStorage, origin, storageUp, published, swState,
                     controlled, inbox, handled>>

\* await getCachedVersion() of initializeCacheName
InstallLocal ==
  LET me == task[InstallFlow]
      cachedVersion == getCachedVersion(cacheStorage)
  IN  /\ me.pc = "i_local"
      /\ initializeCacheName(Null, cachedVersion)
      /\ Becomes(InstallFlow,
           [me EXCEPT !.local = cachedVersion, !.pc = "i_open",
                      !.cacheName = CACHE_NAME'])
      /\ UNCHANGED <<cacheStorage, origin, storageUp, published, swState,
                     controlled, inbox, handled>>

\* await caches.open(CACHE_NAME); a rejection fails the installation
InstallOpen ==
  LET me == task[InstallFlow]
  IN  /\ me.pc = "i_open"
      /\ IF storageUp
         THEN /\ cacheStorage' = CachesOpen(cacheStorage, me.cacheName)
              /\ Becomes(InstallFlow,
                   [me EXCEPT !.pc = "i_addAll", !.handle = me.cacheName])
              /\ UNCHANGED swState
         ELSE /\ swState' = "redundant"
              /\ Becomes(InstallFlow, [me EXCEPT !.pc = "done", !.outcome = "failed"])
              /\ UNCHANGED cacheStorage
      /\ UNCHANGED <<CACHE_NAME, CURRENT_VERSION, origin, storageUp, published,
                     controlled, inbox, handled>>

\* cache.addAll(assets) stores every response, or none and rejects
RECURSIVE PutAll(_, _, _)
PutAll(store, handle, urls) ==
  IF urls = <<>> THEN store
  ELSE PutAll(CachePut(store, handle, Head(urls), Fetch(Head(urls))),
              handle, Tail(urls))

\* await cache.addAll(assets); on success self.skipWaiting()
InstallAddAll ==
  LET me == task[InstallFlow]
  IN  /\ me.pc = "i_addAll"
      /\ IF \A a \in Assets : Downloaded(a)
         THEN /\ cacheStorage' = PutAll(cacheStorage, me.handle, getAssets)
              /\ swState' = "installed"
              /\ Becomes(InstallFlow,
                   [me EXCEPT !.pc = "done", !.success = Assets,
                              !.outcome = "committed"])
         ELSE /\ Becomes(InstallFlow, [me EXCEPT !.pc = "i_each", !.next = 1])
              /\ UNCHANGED <<cacheStorage, swState>>
      /\ UNCHANGED <<CACHE_NAME, CURRENT_VERSION, origin, storageUp, published,
                     controlled, inbox, handled>>

\* one asset of the individual downloads; after the last, self.skipWaiting()
InstallEach ==
  LET me == task[InstallFlow]
      asset == getAssets[me.next]
      last == me.next = Len(getAssets)
  IN  /\ me.pc = "i_each"
      /\ cacheStorage' = IF Downloaded(asset)
                         THEN CachePut(cacheStorage, me.handle, asset, Fetch(asset))
                         ELSE cacheStorage
      /\ Becomes(InstallFlow,
           [me EXCEPT !.success = IF Downloaded(asset) THEN @ \cup {asset} ELSE @,
                      !.next = @ + 1,
                      !.pc = IF last THEN "done" ELSE "i_each",
                      !.outcome = IF last THEN "committed" ELSE @])
      /\ swState' = IF last THEN "installed" ELSE swState
      /\ UNCHANGED <<CACHE_NAME, CURRENT_VERSION, origin, storageUp, published,
                     controlled, inbox, handled>>

---------------------------------------------------------------------------
(* The activate handler *)

ActivateBegin ==
  /\ swState = "installed"
  /\ swState' = "activating"
  /\ ConditionsChange
  /\ Becomes(ActivateFlow,
       [Idle EXCEPT !.msg = "activate",
                    !.pc = IF CURRENT_VERSION = Null THEN "a_probe" ELSE "a_keys",
                    !.pre = Snapshot])
  /\ UNCHANGED <<CACHE_NAME, CURRENT_VERSION, cacheStorage, published,
                 controlled, inbox, handled>>

ActivateProbe ==
  LET me == task[ActivateFlow]
      onlineVersion == fetchVersion
  IN  /\ me.pc = "a_probe"
      /\ IF onlineVersion # Null
         THEN /\ initializeCacheName(onlineVersion, Null)
              /\ Becomes(ActivateFlow,
                   [me EXCEPT !.remote = onlineVersion, !.pc = "a_keys"])
         ELSE /\ Becomes(ActivateFlow, [me EXCEPT !.remote = Null, !.pc = "a_local"])
              /\ UNCHANGED <<CACHE_NAME, CURRENT_VERSION>>
      /\ UNCHANGED <<cacheStorage, origin, storageUp, published, swState,
                     controlled, inbox, handled>>

ActivateLocal ==
  LET me == task[ActivateFlow]
      cachedVersion == getCachedVersion(cacheStorage)
  IN  /\ me.pc = "a_local"
      /\ initializeCacheName(Null, cachedVersion)
      /\ Becomes(ActivateFlow, [me EXCEPT !.local = cachedVersion, !.pc = "a_keys"])
      /\ UNCHANGED <<cacheStorage, origin, storageUp, published, swState,
                     controlled, inbox, handled>>

\* await caches.keys(), then the filter against CACHE_NAME
ActivateKeys ==
  LET me == task[ActivateFlow]
      oldCaches == OldCaches(CacheKeys(cacheStorage), CACHE_NAME)
  IN  /\ me.pc = "a_keys"
      /\ Becomes(ActivateFlow,
           [me EXCEPT !.oldCaches = oldCaches,
                      !.pc = IF Len(oldCaches) > 0 THEN "a_delete" ELSE "a_claim"])
      /\ UNCHANGED <<CACHE_NAME, CURRENT_VERSION, cacheStorage, origin, storageUp,
                     published, swState, controlled, inbox, handled>>

\* await Promise.all(oldCaches.map(name => caches.delete(name)))
ActivateDelete ==
  LET me == task[ActivateFlow]
  IN  /\ me.pc = "a_delete"
      /\ cacheStorage' = CachesDeleteAll(cacheStorage, me.oldCaches)
      /\ task' = Stepped(ActivateFlow, [me EXCEPT !.pc = "a_claim"],
                         Range(me.oldCaches))
      /\ UNCHANGED <<CACHE_NAME, CURRENT_VERSION, origin, storageUp, published,
                     swState, controlled, inbox, handled>>

\* await self.clients.claim()
ActivateClaim ==
  LET me == task[ActivateFlow]
  IN  /\ me.pc = "a_claim"
      /\ controlled' = Clients
      /\ swState' = "activated"
      /\ Becomes(ActivateFlow, [me EXCEPT !.pc = "done", !.outcome = "committed"])
      /\ UNCHANGED <<CACHE_NAME, CURRENT_VERSION, cacheStorage, origin, storageUp,
                     published, inbox, handled>>

\* the activate handler runs once more on the activated worker, before any
\* message or fetch event
ActivateAgain ==
  /\ swState = "activated"
  /\ task[ActivateFlow].msg = "activate"
  /\ handled = 0
  /\ ConditionsChange
  /\ Becomes(ActivateFlow,
       [Idle EXCEPT !.msg = "activate again",
                    !.pc = IF CURRENT_VERSION = Null THEN "a_probe" ELSE "a_keys",
                    !.pre = Snapshot])
  /\ UNCHANGED <<CACHE_NAME, CURRENT_VERSION, cacheStorage, published, swState,
                 controlled, inbox, handled>>

---------------------------------------------------------------------------
(* updateCacheForNewVersion(newVersion) *)

\* a call that parks the update until another flow lets it go on
UpdateCalledParked(me, newVersion) ==
  [me EXCEPT !.target = newVersion, !.cacheName = CacheNameFor(newVersion),
             !.pc = "u_parked", !.before = Snapshot]

\* the call: the synchronous code up to caches.open(newCacheName)
UpdateCalled(me, newVersion) ==
  [me EXCEPT !.target = newVersion, !.cacheName = CacheNameFor(newVersion),
             !.pc = "u_open", !.before = Snapshot]

\* a return to the message handler that posts nothing on the reply port
UpdateReturnedSilent(me) ==
  [me EXCEPT !.pc = IF me.msg = "CHECK_VERSION" THEN "c_available" ELSE "done"]

\* the function has returned to the message handler: CHECK_VERSION goes on to
\* notify the clients, UPDATE_VERSION answers on the port it was given
UpdateReturned(me) ==
  IF me.msg = "CHECK_VERSION"
  THEN [me EXCEPT !.pc = "c_available"]
  ELSE [me EXCEPT !.pc = "done",
                  !.acks = IF me.port
                           THEN Append(@, [type |-> "CACHE_UPDATE_COMPLETE",
                                           version |-> me.target])
                           ELSE @]

\* await caches.open(newCacheName); a rejection is caught at the end
UpdateOpen(t) ==
  LET me == task[t]
  IN  /\ me.pc = "u_open"
      /\ IF storageUp
         THEN /\ cacheStorage' = CachesOpen(cacheStorage, me.cacheName)
              /\ Becomes(t, [me EXCEPT !.pc = "u_download", !.next = 1,
                                       !.handle = me.cacheName])
         ELSE /\ Becomes(t, [me EXCEPT !.pc = "u_catch"])
              /\ UNCHANGED cacheStorage
      /\ UNCHANGED <<CACHE_NAME, CURRENT_VERSION, origin, storageUp, published,
                     swState, controlled, inbox, handled>>

\* one asset: fetch it fresh and, when the response is ok, newCache.put it
\* under the asset's own URL
UpdateDownload(t) ==
  LET me == task[t]
      asset == getAssets[me.next]
  IN  /\ me.pc = "u_download"
      /\ cacheStorage' = IF Downloaded(asset)
                         THEN CachePut(cacheStorage, me.handle, asset, Fetch(asset))
                         ELSE cacheStorage
      /\ Becomes(t,
           [me EXCEPT !.success = IF Downloaded(asset) THEN @ \cup {asset} ELSE @,
                      !.next = @ + 1,
                      !.pc = IF me.next = Len(getAssets) THEN "u_gate" ELSE @])
      /\ UNCHANGED <<CACHE_NAME, CURRENT_VERSION, origin, storageUp, published,
                     swState, controlled, inbox, handled>>

\* all downloads have settled: without an essential file the update is
\* abandoned, otherwise CACHE_NAME and CURRENT_VERSION are reassigned
UpdateGate(t) ==
  LET me == task[t]
  IN  /\ me.pc = "u_gate"
      /\ IF hasEssential(me.success)
         THEN /\ CACHE_NAME' = me.cacheName
              /\ CURRENT_VERSION' = me.target
              /\ Becomes(t, [me EXCEPT !.pc = "u_keys", !.outcome = "committed"])
         ELSE /\ Becomes(t, [me EXCEPT !.pc = "u_abandon", !.outcome = "abandoned"])
              /\ UNCHANGED <<CACHE_NAME, CURRENT_VERSION>>
      /\ UNCHANGED <<cacheStorage, origin, storageUp, published, swState,
                     controlled, inbox, handled>>

\* await caches.delete(newCacheName); return
UpdateAbandon(t) ==
  LET me == task[t]
  IN  /\ me.pc = "u_abandon"
      /\ cacheStorage' = CachesDelete(cacheStorage, me.cacheName)
      /\ task' = Stepped(t, UpdateReturned(me), {me.cacheName})
      /\ UNCHANGED <<CACHE_NAME, CURRENT_VERSION, origin, storageUp, published,
                     swState, controlled, inbox, handled>>

\* await caches.keys(), then the filter against newCacheName
UpdateKeys(t) ==
  LET me == task[t]
  IN  /\ me.pc = "u_keys"
      /\ Becomes(t, [me EXCEPT !.pc = "u_delete",
                               !.oldCaches = OldCaches(CacheKeys(cacheStorage),
                                                       me.cacheName)])
      /\ UNCHANGED <<CACHE_NAME, CURRENT_VERSION, cacheStorage, origin, storageUp,
                     published, swState, controlled, inbox, handled>>

\* await Promise.all(oldCaches.map(name => caches.delete(name)))
UpdateDelete(t) ==
  LET me == task[t]
  IN  /\ me.pc = "u_delete"
      /\ cacheStorage' = CachesDeleteAll(cacheStorage, me.oldCaches)
      /\ task' = Stepped(t, [me EXCEPT !.pc = "u_notify"], Range(me.oldCaches))
      /\ UNCHANGED <<CACHE_NAME, CURRENT_VERSION, origin, storageUp, published,
                     swState, controlled, inbox, handled>>

\* await self.clients.matchAll(), post CACHE_UPDATED to each client; return
UpdateNotify(t) ==
  LET me == task[t]
  IN  /\ me.pc = "u_notify"
      /\ PostAll(CacheUpdated(me.target, t))
      /\ Becomes(t, UpdateReturned(me))
      /\ UNCHANGED <<CACHE_NAME, CURRENT_VERSION, cacheStorage, origin, storageUp,
                     published, swState, controlled, handled>>

\* the catch block: post CACHE_UPDATE_FAILED to each client; return
UpdateCatch(t) ==
  LET me == task[t]
  IN  /\ me.pc = "u_catch"
      /\ PostAll(CacheUpdateFailed(t))
      /\ Becomes(t, UpdateReturned([me EXCEPT !.outcome = "failed"]))
      /\ UNCHANGED <<CACHE_NAME, CURRENT_VERSION, cacheStorage, origin, storageUp,
                     published, swState, controlled, handled>>

---------------------------------------------------------------------------
(* The message handler *)

\* the clients send their messages to the worker that controls them: it
\* receives them once it is activated
Receiving == swState = "activated"

\* a CHECK_VERSION message arrives: checkForUpdate() is called
MessageCheckVersion ==
  /\ Receiving
  /\ ConditionsChange
  /\ Delivered([Idle EXCEPT !.msg = "CHECK_VERSION", !.pc = "c_probe",
                            !.pre = Snapshot])
  /\ UNCHANGED <<CACHE_NAME, CURRENT_VERSION, cacheStorage, published, swState,
                 controlled>>

\* await fetchVersion() of checkForUpdate
CheckProbe(t) ==
  LET me == task[t]
      onlineVersion == fetchVersion
  IN  /\ me.pc = "c_probe"
      /\ Becomes(t,
           IF onlineVersion = Null
           THEN [me EXCEPT !.remote = Null, !.pc = "done",
                           !.hasUpdate = checkForUpdate(Null, Null)]
           ELSE [me EXCEPT !.remote = onlineVersion, !.pc = "c_local"])
      /\ UNCHANGED <<CACHE_NAME, CURRENT_VERSION, cacheStorage, origin, storageUp,
                     published, swState, controlled, inbox, handled>>

\* await getCachedVersion() of checkForUpdate, and the handler's if (hasUpdate)
CheckLocal(t) ==
  LET me == task[t]
      cachedVersion == getCachedVersion(cacheStorage)
      hasUpdate == checkForUpdate(me.remote, cachedVersion)
  IN  /\ me.pc = "c_local"
      /\ Becomes(t, [me EXCEPT !.local = cachedVersion, !.hasUpdate = hasUpdate,
                               !.pc = IF hasUpdate THEN "c_probe2" ELSE "done"])
      /\ UNCHANGED <<CACHE_NAME, CURRENT_VERSION, cacheStorage, origin, storageUp,
                     published, swState, controlled, inbox, handled>>

\* the handler's own await fetchVersion(), then updateCacheForNewVersion
CheckProbeAgain(t) ==
  LET me == task[t]
      onlineVersion == fetchVersion
  IN  /\ me.pc = "c_probe2"
      /\ Becomes(t, IF onlineVersion = Null
                    THEN [me EXCEPT !.pc = "done"]
                    ELSE UpdateCalled(me, onlineVersion))
      /\ UNCHANGED <<CACHE_NAME, CURRENT_VERSION, cacheStorage, origin, storageUp,
                     published, swState, controlled, inbox, handled>>

\* await self.clients.matchAll(), post UPDATE_AVAILABLE to each client
CheckAvailable(t) ==
  LET me == task[t]
  IN  /\ me.pc = "c_available"
      /\ PostAll(UpdateAvailable(me.target, t))
      /\ Becomes(t, [me EXCEPT !.pc = "done"])
      /\ UNCHANGED <<CACHE_NAME, CURRENT_VERSION, cacheStorage, origin, storageUp,
                     published, swState, controlled, handled>>

\* an UPDATE_VERSION message arrives, with or without a version and a port
MessageUpdateVersion ==
  /\ Receiving
  /\ ConditionsChange
  /\ \E newVersion \in Versions \cup {Null}, port \in BOOLEAN :
       LET me == [Idle EXCEPT !.msg = "UPDATE_VERSION", !.port = port,
                              !.pre = Snapshot]
       IN  Delivered(IF newVersion = Null THEN [me EXCEPT !.pc = "done"]
                     ELSE UpdateCalled(me, newVersion))
  /\ UNCHANGED <<CACHE_NAME, CURRENT_VERSION, cacheStorage, published, swState,
                 controlled>>

\* an UPDATE_VERSION message without a reply port arrives while another
\* handler may be running: the conditions change only when none is
UpdateVersionArrives ==
  /\ Receiving
  /\ IF Quiet THEN ConditionsChange ELSE UNCHANGED <<origin, storageUp>>
  /\ \E newVersion \in Versions \cup {Null} :
       LET me == [Idle EXCEPT !.msg = "UPDATE_VERSION", !.pre = Snapshot]
       IN  Delivered(IF newVersion = Null THEN [me EXCEPT !.pc = "done"]
                     ELSE UpdateCalled(me, newVersion))
  /\ UNCHANGED <<CACHE_NAME, CURRENT_VERSION, cacheStorage, published, swState,
                 controlled>>

---------------------------------------------------------------------------
(* The fetch handler *)

SiteOrigin == "https://kiosk.example"

\* new URL(event.request.url).pathname
Pathname(url) ==
  IF StartsWith(url, SiteOrigin) THEN SubSeq(url, Len(SiteOrigin) + 1, Len(url))
  ELSE url

\* the requests the pages of the kiosk and the browser issue
Requests ==
  { [method |-> "GET", url |-> SiteOrigin \o "/totem-test/version.json"],
    [method |-> "GET", url |-> SiteOrigin \o "/totem-test/index.html"],
    [method |-> "GET", url |-> SiteOrigin \o "/totem-test/media/video2.mp4"],
    [method |-> "GET", url |-> SiteOrigin \o "/totem-test/favicon.ico"],
    [method |-> "POST", url |-> SiteOrigin \o "/totem-test/index.html"],
    [method |-> "GET", url |-> "chrome-extension://kiosk/panel.js"] }

\* a filter that takes no path for the favicon
IsNeverFavicon(url) == FALSE

\* url.pathname.endsWith('/favicon.ico') || url.pathname === '/favicon.ico'
IsFavicon(url) ==
  EndsWith(Pathname(url), "/favicon.ico") \/ Pathname(url) = "/favicon.ico"

\* url.pathname === basePath + '/version.json' ||
\* url.pathname.endsWith('/version.json')
IsVersionRequest(url) ==
  Pathname(url) = getBasePath \o "/version.json"
    \/ EndsWith(Pathname(url), "/version.json")

\* event.request.url.match(/\.(mp4|webm|ogg|mp3|wav|avi|mov)$/i)
MediaExtensions == <<"mp4", "webm", "ogg", "mp3", "wav", "avi", "mov">>
IsMedia(url) ==
  \E i \in DOMAIN MediaExtensions : EndsWith(url, "." \o MediaExtensions[i])

NoContent == [status |-> 204, body |-> ""]          \* new Response('', {status: 204})
NotFound == [status |-> 404, body |-> ""]           \* new Response('', {status: 404})
\* an answer of 500 where the handler answers 503
ServerError == [status |-> 500, body |-> "Error"]
Unavailable == [status |-> 503, body |-> "Offline"] \* new Response('Offline', {status: 503})

\* the task answers with response r taken from `source` and ends
Answered(me, r, source) ==
  [me EXCEPT !.response = r, !.source = source, !.pc = "done"]

\* a fetch event arrives: the synchronous part of the handler
ServeBegin(s) ==
  /\ Receiving
  /\ ~InProgress(s)
  /\ handled < MaxMessages
  /\ handled' = handled + 1
  /\ IF Quiet THEN ConditionsChange ELSE UNCHANGED <<origin, storageUp>>
  /\ \E r \in Requests :
       LET me == [Idle EXCEPT !.msg = "fetch", !.request = r, !.pre = Snapshot]
       IN  Becomes(s,
             IF r.method # "GET" \/ ~StartsWith(r.url, "http")
             THEN [me EXCEPT !.pc = "done"]
             ELSE IF IsFavicon(r.url) THEN Answered(me, NoContent, "synthetic")
             ELSE IF IsVersionRequest(r.url) THEN [me EXCEPT !.pc = "v_fetch"]
             ELSE [me EXCEPT !.pc = "s_match"])
  /\ UNCHANGED <<CACHE_NAME, CURRENT_VERSION, cacheStorage, published, swState,
                 controlled, inbox>>

\* version.json: await fetch(event.request, {cache: 'no-store'})
ServeVersionFetch(s) ==
  LET me == task[s]
      networkResponse == Fetch(Pathname(me.request.url))
  IN  /\ me.pc = "v_fetch"
      /\ Becomes(s,
           IF Rejected(networkResponse) THEN [me EXCEPT !.pc = "v_match"]
           ELSE IF Ok(networkResponse)
           THEN [me EXCEPT !.network = networkResponse, !.cacheName = CACHE_NAME,
                           !.pc = "v_open"]
           ELSE Answered([me EXCEPT !.network = networkResponse],
                         networkResponse, "network"))
      /\ UNCHANGED <<CACHE_NAME, CURRENT_VERSION, cacheStorage, origin, storageUp,
                     published, swState, controlled, inbox, handled>>

\* version.json: await caches.open(CACHE_NAME); a rejection goes to the catch
ServeVersionOpen(s) ==
  LET me == task[s]
  IN  /\ me.pc = "v_open"
      /\ IF storageUp
         THEN /\ cacheStorage' = CachesOpen(cacheStorage, me.cacheName)
              /\ Becomes(s, [me EXCEPT !.handle = me.cacheName, !.pc = "v_put"])
         ELSE /\ Becomes(s, [me EXCEPT !.pc = "v_match"])
              /\ UNCHANGED cacheStorage
      /\ UNCHANGED <<CACHE_NAME, CURRENT_VERSION, origin, storageUp, published,
                     swState, controlled, inbox, handled>>

\* version.json: await cache.put(event.request, networkResponse.clone()), then
\* return networkResponse; a rejection goes to the catch
ServeVersionPut(s) ==
  LET me == task[s]
      url == Pathname(me.request.url)
  IN  /\ me.pc = "v_put"
      /\ IF storageUp
         THEN /\ cacheStorage' = CachePut(cacheStorage, me.handle, url, me.network)
              /\ Becomes(s, Answered([me EXCEPT !.wroteTo = me.handle],
                                     me.network, "network"))
         ELSE /\ Becomes(s, [me EXCEPT !.pc = "v_match"])
              /\ UNCHANGED cacheStorage
      /\ UNCHANGED <<CACHE_NAME, CURRENT_VERSION, origin, storageUp, published,
                     swState, controlled, inbox, handled>>

\* version.json, the catch: await caches.match(event.request), else 503
ServeVersionMatch(s) ==
  LET me == task[s]
      found == CachesMatch(cacheStorage, Pathname(me.request.url))
  IN  /\ me.pc = "v_match"
      /\ Becomes(s,
           IF found # <<>>
           THEN Answered([me EXCEPT !.servedFrom = found[1].name],
                         found[1].response, "cache")
           ELSE Answered(me, Unavailable, "synthetic"))
      /\ UNCHANGED <<CACHE_NAME, CURRENT_VERSION, cacheStorage, origin, storageUp,
                     published, swState, controlled, inbox, handled>>

\* await caches.match(event.request): a cached response is returned at once
\* and the refresh is started in the background
ServeMatch(s) ==
  LET me == task[s]
      found == CachesMatch(cacheStorage, Pathname(me.request.url))
  IN  /\ me.pc = "s_match"
      /\ Becomes(s,
           IF found # <<>>
           THEN [me EXCEPT !.response = found[1].response, !.source = "cache",
                           !.servedFrom = found[1].name, !.pc = "b_fetch"]
           ELSE [me EXCEPT !.pc = "s_fetch"])
      /\ UNCHANGED <<CACHE_NAME, CURRENT_VERSION, cacheStorage, origin, storageUp,
                     published, swState, controlled, inbox, handled>>

\* the refresh: fetch(event.request).then(response => ...).catch(() => {})
ServeRefreshFetch(s) ==
  LET me == task[s]
      response == Fetch(Pathname(me.request.url))
  IN  /\ me.pc = "b_fetch"
      /\ Becomes(s,
           IF ~Rejected(response) /\ Ok(response)
           THEN [me EXCEPT !.network = response, !.cacheName = CACHE_NAME,
                           !.pc = "b_open"]
           ELSE [me EXCEPT !.pc = "done"])
      /\ UNCHANGED <<CACHE_NAME, CURRENT_VERSION, cacheStorage, origin, storageUp,
                     published, swState, controlled, inbox, handled>>

\* the refresh: caches.open(CACHE_NAME).then(...).catch(err => warn)
ServeRefreshOpen(s) ==
  LET me == task[s]
  IN  /\ me.pc = "b_open"
      /\ IF storageUp
         THEN /\ cacheStorage' = CachesOpen(cacheStorage, me.cacheName)
              /\ Becomes(s, [me EXCEPT !.handle = me.cacheName, !.pc = "b_put"])
         ELSE /\ Becomes(s, [me EXCEPT !.pc = "done"])
              /\ UNCHANGED cacheStorage
      /\ UNCHANGED <<CACHE_NAME, CURRENT_VERSION, origin, storageUp, published,
                     swState, controlled, inbox, handled>>

\* the refresh: cache.put(event.request, response.clone())
ServeRefreshPut(s) ==
  LET me == task[s]
      url == Pathname(me.request.url)
  IN  /\ me.pc = "b_put"
      /\ IF storageUp
         THEN /\ cacheStorage' = CachePut(cacheStorage, me.handle, url, me.network)
              /\ Becomes(s, [me EXCEPT !.wroteTo = me.handle, !.pc = "done"])
         ELSE /\ Becomes(s, [me EXCEPT !.pc = "done"])
              /\ UNCHANGED cacheStorage
      /\ UNCHANGED <<CACHE_NAME, CURRENT_VERSION, origin, storageUp, published,
                     swState, controlled, inbox, handled>>

\* not in cache: await fetch(event.request); when it rejects, 404 for a media
\* file and 503 otherwise
ServeFetch(s) ==
  LET me == task[s]
      networkResponse == Fetch(Pathname(me.request.url))
  IN  /\ me.pc = "s_fetch"
      /\ Becomes(s,
           IF Rejected(networkResponse)
           THEN Answered(me, IF IsMedia(me.request.url) THEN NotFound
                             ELSE Unavailable, "synthetic")
           ELSE IF Ok(networkResponse)
           THEN [me EXCEPT !.network = networkResponse, !.cacheName = CACHE_NAME,
                           !.pc = "s_open"]
           ELSE Answered([me EXCEPT !.network = networkResponse],
                         networkResponse, "network"))
      /\ UNCHANGED <<CACHE_NAME, CURRENT_VERSION, cacheStorage, origin, storageUp,
                     published, swState, controlled, inbox, handled>>

\* not in cache: await caches.open(CACHE_NAME); a rejection is only logged
ServeOpen(s) ==
  LET me == task[s]
  IN  /\ me.pc = "s_open"
      /\ IF storageUp
         THEN /\ cacheStorage' = CachesOpen(cacheStorage, me.cacheName)
              /\ Becomes(s, [me EXCEPT !.handle = me.cacheName, !.pc = "s_put"])
         ELSE /\ Becomes(s, Answered(me, me.network, "network"))
              /\ UNCHANGED cacheStorage
      /\ UNCHANGED <<CACHE_NAME, CURRENT_VERSION, origin, storageUp, published,
                     swState, controlled, inbox, handled>>

\* not in cache: await cache.put(event.request, networkResponse.clone()), a
\* rejection is only logged; return networkResponse
ServePut(s) ==
  LET me == task[s]
      url == Pathname(me.request.url)
  IN  /\ me.pc = "s_put"
      /\ IF storageUp
         THEN /\ cacheStorage' = CachePut(cacheStorage, me.handle, url, me.network)
              /\ Becomes(s, Answered([me EXCEPT !.wroteTo = me.handle],
                                     me.network, "network"))
         ELSE /\ Becomes(s, Answered(me, me.network, "network"))
              /\ UNCHANGED cacheStorage
      /\ UNCHANGED <<CACHE_NAME, CURRENT_VERSION, origin, storageUp, published,
                     swState, controlled, inbox, handled>>

\* new Response('Error', {status: 500}) of the outer catch
InternalError == [status |-> 500, body |-> "Error"]

\* the promise given to event.respondWith rejects: the task ends without a
\* response
Rejects(me) == [me EXCEPT !.source = "rejected", !.pc = "done"]

\* await caches.match(event.request) throws while the storage is unavailable:
\* control goes to the outer catch
ServeMatchThrows(s) ==
  LET me == task[s]
  IN  /\ me.pc = "s_match"
      /\ ~storageUp
      /\ Becomes(s, [me EXCEPT !.pc = "s_catch"])
      /\ UNCHANGED <<CACHE_NAME, CURRENT_VERSION, cacheStorage, origin, storageUp,
                     published, swState, controlled, inbox, handled>>

\* the outer catch: await caches.match(event.request) once more; it resolves,
\* with the cached response or with nothing (then 500), or it throws again
ServeCatch(s) ==
  LET me == task[s]
      found == CachesMatch(cacheStorage, Pathname(me.request.url))
  IN  /\ me.pc = "s_catch"
      /\ \E throws \in BOOLEAN :
           Becomes(s,
             IF throws THEN Rejects(me)
             ELSE IF found # <<>>
             THEN Answered([me EXCEPT !.servedFrom = found[1].name],
                           found[1].response, "cache")
             ELSE Answered(me, InternalError, "synthetic"))
      /\ UNCHANGED <<CACHE_NAME, CURRENT_VERSION, cacheStorage, origin, storageUp,
                     published, swState, controlled, inbox, handled>>

\* version.json, the catch: await caches.match(event.request) throws while
\* the storage is unavailable; nothing catches it
ServeVersionMatchThrows(s) ==
  LET me == task[s]
  IN  /\ me.pc = "v_match"
      /\ ~storageUp
      /\ Becomes(s, Rejects(me))
      /\ UNCHANGED <<CACHE_NAME, CURRENT_VERSION, cacheStorage, origin, storageUp,
                     published, swState, controlled, inbox, handled>>

---------------------------------------------------------------------------
(* The second variant of the worker.  Its manifest names other media files *)
(* and its install, activate and message handlers make the same calls as   *)
(* the first variant's; its updateCacheForNewVersion has no essential-     *)
(* files gate, deletes only the cache CACHE_NAME named before, and posts   *)
(* nothing when it fails.                                                  *)

InitialCacheNameV2 == "totem-cache-v3"   \* let CACHE_NAME = 'totem-cache-v3'

InitV2 == Start(InitialCacheNameV2)

\* await caches.open(newCacheName); a rejection is caught and only logged
UpdateOpenV2(t) ==
  LET me == task[t]
  IN  /\ me.pc = "u_open"
      /\ IF storageUp
         THEN /\ cacheStorage' = CachesOpen(cacheStorage, me.cacheName)
              /\ Becomes(t, [me EXCEPT !.pc = "u_download", !.next = 1,
                                       !.handle = me.cacheName])
         ELSE /\ Becomes(t, UpdateReturned([me EXCEPT !.outcome = "failed"]))
              /\ UNCHANGED cacheStorage
      /\ UNCHANGED <<CACHE_NAME, CURRENT_VERSION, origin, storageUp, published,
                     swState, controlled, inbox, handled>>

\* one turn of the loop over the assets; after the last one CACHE_NAME and
\* CURRENT_VERSION are reassigned and caches.delete(oldCacheName) is called
UpdateDownloadV2(t) ==
  LET me == task[t]
      asset == getAssets[me.next]
      last == me.next = Len(getAssets)
  IN  /\ me.pc = "u_download"
      /\ cacheStorage' = IF Downloaded(asset)
                         THEN CachePut(cacheStorage, me.handle, asset, Fetch(asset))
                         ELSE cacheStorage
      /\ IF last
         THEN /\ CACHE_NAME' = me.cacheName
              /\ CURRENT_VERSION' = me.target
         ELSE UNCHANGED <<CACHE_NAME, CURRENT_VERSION>>
      /\ Becomes(t,
           [me EXCEPT !.success = IF Downloaded(asset) THEN @ \cup {asset} ELSE @,
                      !.next = @ + 1,
                      !.pc = IF last THEN "u_delete" ELSE @,
                      !.oldCaches = IF last THEN <<CACHE_NAME>> ELSE @,
                      !.outcome = IF last THEN "committed" ELSE @])
      /\ UNCHANGED <<origin, storageUp, published, swState, controlled, inbox,
                     handled>>

\* await self.clients.matchAll(), post CACHE_UPDATED (without a success field)
UpdateNotifyV2(t) ==
  LET me == task[t]
  IN  /\ me.pc = "u_notify"
      /\ PostAll([type |-> "CACHE_UPDATED", version |-> me.target, by |-> t])
      /\ Becomes(t, UpdateReturned(me))
      /\ UNCHANGED <<CACHE_NAME, CURRENT_VERSION, cacheStorage, origin, storageUp,
                     published, swState, controlled, handled>>

\* a fetch event arrives: the second variant has no favicon branch
ServeBeginV2(s) ==
  /\ Receiving
  /\ ~InProgress(s)
  /\ handled < MaxMessages
  /\ handled' = handled + 1
  /\ IF Quiet THEN ConditionsChange ELSE UNCHANGED <<origin, storageUp>>
  /\ \E r \in Requests :
       LET me == [Idle EXCEPT !.msg = "fetch", !.request = r, !.pre = Snapshot]
       IN  Becomes(s,
             IF r.method # "GET" \/ ~StartsWith(r.url, "http")
             THEN [me EXCEPT !.pc = "done"]
             ELSE IF IsVersionRequest(r.url) THEN [me EXCEPT !.pc = "v_fetch"]
             ELSE [me EXCEPT !.pc = "s_match"])
  /\ UNCHANGED <<CACHE_NAME, CURRENT_VERSION, cacheStorage, published, swState,
                 controlled, inbox>>

\* not in cache: await fetch(event.request); when it rejects, 503
ServeFetchV2(s) ==
  LET me == task[s]
      networkResponse == Fetch(Pathname(me.request.url))
  IN  /\ me.pc = "s_fetch"
      /\ Becomes(s,
           IF Rejected(networkResponse)
           THEN Answered(me, Unavailable, "synthetic")
           ELSE IF Ok(networkResponse)
           THEN [me EXCEPT !.network = networkResponse, !.cacheName = CACHE_NAME,
                           !.pc = "s_open"]
           ELSE Answered([me EXCEPT !.network = networkResponse],
                         networkResponse, "network"))
      /\ UNCHANGED <<CACHE_NAME, CURRENT_VERSION, cacheStorage, origin, storageUp,
                     published, swState, controlled, inbox, handled>>

\* not in cache: await caches.open(CACHE_NAME), whose rejection is caught as
\* a network failure; then cache.put is called without await and
\* networkResponse is returned
ServeOpenV2(s) ==
  LET me == task[s]
  IN  /\ me.pc = "s_open"
      /\ IF storageUp
         THEN /\ cacheStorage' = CachesOpen(cacheStorage, me.cacheName)
              /\ Becomes(s, [me EXCEPT !.handle = me.cacheName,
                                       !.response = me.network,
                                       !.source = "network", !.pc = "s_store"])
         ELSE /\ Becomes(s, Answered(me, Unavailable, "synthetic"))
              /\ UNCHANGED cacheStorage
      /\ UNCHANGED <<CACHE_NAME, CURRENT_VERSION, origin, storageUp, published,
                     swState, controlled, inbox, handled>>

\* the put started before the return settles
ServePutV2(s) ==
  LET me == task[s]
      url == Pathname(me.request.url)
  IN  /\ me.pc = "s_store"
      /\ IF storageUp
         THEN /\ cacheStorage' = CachePut(cacheStorage, me.handle, url, me.network)
              /\ Becomes(s, [me EXCEPT !.wroteTo = me.handle, !.pc = "done"])
         ELSE /\ Becomes(s, [me EXCEPT !.pc = "done"])
              /\ UNCHANGED cacheStorage
      /\ UNCHANGED <<CACHE_NAME, CURRENT_VERSION, origin, storageUp, published,
                     swState, controlled, inbox, handled>>

---------------------------------------------------------------------------
(* Specifications *)

Begin ==
  \/ InstallBegin
  \/ ActivateBegin
  \/ MessageCheckVersion
  \/ MessageUpdateVersion

Step ==
  \/ InstallProbe \/ InstallLocal \/ InstallOpen \/ InstallAddAll \/ InstallEach
  \/ ActivateProbe \/ ActivateLocal \/ ActivateKeys \/ ActivateDelete
  \/ ActivateClaim
  \/ \E t \in MessageIds :
       \/ CheckProbe(t) \/ CheckLocal(t) \/ CheckProbeAgain(t) \/ CheckAvailable(t)
       \/ UpdateOpen(t) \/ UpdateDownload(t) \/ UpdateGate(t) \/ UpdateAbandon(t)
       \/ UpdateKeys(t) \/ UpdateDelete(t) \/ UpdateNotify(t) \/ UpdateCatch(t)

\* flows interleave at their awaits
Next == Publish \/ Begin \/ Step

Spec == Init /\ [][Next]_vars

\* one flow at a time
NextSeq == Publish \/ (Quiet /\ Begin) \/ Step

SpecSeq == Init /\ [][NextSeq]_vars

\* a fetch task resumes at its await
ServeStep ==
  \E s \in ServeIds :
    \/ ServeVersionFetch(s) \/ ServeVersionOpen(s) \/ ServeVersionPut(s)
    \/ ServeVersionMatch(s)
    \/ ServeMatch(s) \/ ServeRefreshFetch(s) \/ ServeRefreshOpen(s)
    \/ ServeRefreshPut(s)
    \/ ServeFetch(s) \/ ServeOpen(s) \/ ServePut(s)

\* the worker is installed and activated, then fetch events arrive; no
\* message is sent
NextFetch ==
  \/ Publish
  \/ (Quiet /\ (InstallBegin \/ ActivateBegin))
  \/ InstallProbe \/ InstallLocal \/ InstallOpen \/ InstallAddAll \/ InstallEach
  \/ ActivateProbe \/ ActivateLocal \/ ActivateKeys \/ ActivateDelete
  \/ ActivateClaim
  \/ (\E s \in ServeIds : ServeBegin(s))
  \/ ServeStep

SpecFetch == Init /\ [][NextFetch]_vars

\* the same, with cache lookups that can throw while the storage is
\* unavailable
NextFetchFaulty ==
  \/ NextFetch
  \/ \E s \in ServeIds :
       ServeMatchThrows(s) \/ ServeCatch(s) \/ ServeVersionMatchThrows(s)

SpecFetchFaulty == Init /\ [][NextFetchFaulty]_vars

\* a kiosk that has never run the application
InitFresh == Init /\ cacheStorage = <<>>

\* one message handler at a time, with fetch events arriving at any moment
NextServe ==
  \/ Publish
  \/ (Quiet /\ Begin)
  \/ Step
  \/ (\E s \in ServeIds : ServeBegin(s))
  \/ ServeStep

SpecServe == InitFresh /\ [][NextServe]_vars

\* install, then the activate handler twice in a row
NextTwice ==
  \/ Publish
  \/ (Quiet /\ (InstallBegin \/ ActivateBegin \/ ActivateAgain))
  \/ InstallProbe \/ InstallLocal \/ InstallOpen \/ InstallAddAll \/ InstallEach
  \/ ActivateProbe \/ ActivateLocal \/ ActivateKeys \/ ActivateDelete
  \/ ActivateClaim

SpecTwice == Init /\ [][NextTwice]_vars

\* a kiosk that has never run the application installs and activates the
\* worker; UPDATE_VERSION messages then arrive at any moment and their
\* updates interleave at their awaits
NextRace ==
  \/ (Quiet /\ (InstallBegin \/ ActivateBegin))
  \/ InstallProbe \/ InstallLocal \/ InstallOpen \/ InstallAddAll \/ InstallEach
  \/ ActivateProbe \/ ActivateLocal \/ ActivateKeys \/ ActivateDelete
  \/ ActivateClaim
  \/ UpdateVersionArrives
  \/ \E t \in MessageIds :
       \/ UpdateOpen(t) \/ UpdateDownload(t) \/ UpdateGate(t) \/ UpdateAbandon(t)
       \/ UpdateKeys(t) \/ UpdateDelete(t) \/ UpdateNotify(t) \/ UpdateCatch(t)

SpecRace == InitFresh /\ [][NextRace]_vars

\* the continuation of updateCacheForNewVersion in flow t after any of its
\* awaits
UpdateStep(t) ==
  \/ UpdateOpen(t) \/ UpdateDownload(t) \/ UpdateGate(t) \/ UpdateAbandon(t)
  \/ UpdateKeys(t) \/ UpdateDelete(t) \/ UpdateNotify(t) \/ UpdateCatch(t)

\* every fetch and every cache operation settles, and the event loop runs the
\* continuation of a settled await
SpecRaceLive == SpecRace /\ \A t \in MessageIds : WF_vars(UpdateStep(t))

\* the second variant, one flow at a time
StepV2 ==
  \/ InstallProbe \/ InstallLocal \/ InstallOpen \/ InstallAddAll \/ InstallEach
  \/ ActivateProbe \/ ActivateLocal \/ ActivateKeys \/ ActivateDelete
  \/ ActivateClaim
  \/ \E t \in MessageIds :
       \/ CheckProbe(t) \/ CheckLocal(t) \/ CheckProbeAgain(t) \/ CheckAvailable(t)
       \/ UpdateOpenV2(t) \/ UpdateDownloadV2(t) \/ UpdateDelete(t)
       \/ UpdateNotifyV2(t)

NextSeqV2 == Publish \/ (Quiet /\ Begin) \/ StepV2

SpecSeqV2 == InitV2 /\ [][NextSeqV2]_vars

\* the second variant installed and activated, then serving fetch events
ServeStepV2 ==
  \E s \in ServeIds :
    \/ ServeVersionFetch(s) \/ ServeVersionOpen(s) \/ ServeVersionPut(s)
    \/ ServeVersionMatch(s)
    \/ ServeMatch(s)
    \/ ServeRefreshFetch(s) \/ ServeRefreshOpen(s) \/ ServeRefreshPut(s)
    \/ ServeFetchV2(s) \/ ServeOpenV2(s) \/ ServePutV2(s)

NextFetchV2 ==
  \/ Publish
  \/ (Quiet /\ (InstallBegin \/ ActivateBegin))
  \/ InstallProbe \/ InstallLocal \/ InstallOpen \/ InstallAddAll \/ InstallEach
  \/ ActivateProbe \/ ActivateLocal \/ ActivateKeys \/ ActivateDelete
  \/ ActivateClaim
  \/ (\E s \in ServeIds : ServeBeginV2(s))
  \/ ServeStepV2

SpecFetchV2 == InitV2 /\ [][NextFetchV2]_vars

---------------------------------------------------------------------------
(* Properties *)

\* updateCacheForNewVersion has returned in flow t
Returned(t) == task[t].outcome # "none" /\ task[t].pc \in {"c_available", "done"}

\* the names of the generations: the caches whose name has the prefix
Generations(store) == {n \in Names(store) : StartsWith(n, CachePrefix)}

\* the messages of the given type that flow t has posted to client c
PostedBy(t, c, type) ==
  SelectSeq(inbox[c], LAMBDA m : m.by = t /\ m.type = type)

\* C1: an update that is abandoned (no essential file downloaded, or the new
\* cache could not be opened) leaves CACHE_NAME, CURRENT_VERSION and the
\* Cache Storage exactly as they were when it was called, whatever version it
\* was called for
C1_AbandonedUpdateChangesNothing ==
  \A t \in MessageIds :
    (Returned(t) /\ task[t].outcome \in {"abandoned", "failed"}) =>
       /\ CACHE_NAME = task[t].before.name
       /\ CURRENT_VERSION = task[t].before.version
       /\ cacheStorage = task[t].before.store

\* an update for a version that is not cached yet has been abandoned
C1_AbandonedFreshTarget ==
  \E t \in MessageIds :
    /\ Returned(t) /\ task[t].outcome = "abandoned"
    /\ ~HasCache(task[t].before.store, task[t].cacheName)
    /\ cacheStorage = task[t].before.store


\* C2: once an update that committed has returned and no other flow is in
\* progress, the Cache Storage holds exactly one generation, the one named
\* for the update's version: every generation of another name is gone
C2_CommittedUpdateLeavesOneGeneration ==
  \A t \in MessageIds :
    (/\ Returned(t) /\ task[t].outcome = "committed"
     /\ \A u \in TaskIds \ {t} : ~InProgress(u))
    => Generations(cacheStorage) = {CacheNameFor(task[t].target)}

\* an update has replaced the generation of another version by its own
C2_GenerationReplaced ==
  \E t \in MessageIds :
    /\ Returned(t) /\ task[t].outcome = "committed"
    /\ Generations(task[t].before.store) # {}
    /\ CacheNameFor(task[t].target) \notin Generations(task[t].before.store)
    /\ Generations(cacheStorage) = {CacheNameFor(task[t].target)}

\* the four essential assets, by their paths
EssentialPaths ==
  {"/totem-test/index.html", "/totem-test/main.js", "/totem-test/style.css",
   "/totem-test/version.json"}

\* the essential assets that flow t's update has downloaded with an ok response
\* and that its new generation holds
EssentialStored(t) ==
  {a \in EssentialPaths :
     /\ a \in task[t].success
     /\ HasCache(cacheStorage, task[t].cacheName)
     /\ a \in DOMAIN CacheNamed(cacheStorage, task[t].cacheName).entries}

C4_PointedGenerationNeverDeleted ==
  [][\A n \in Generations(cacheStorage) \ Generations(cacheStorage') :
       n # CACHE_NAME]_vars

\* an update has reassigned the pointer and then deleted the superseded
\* generation
C4_SupersededDeleted ==
  \E t \in MessageIds :
    /\ task[t].pc = "u_notify"
    /\ task[t].oldCaches # <<>>
    /\ CACHE_NAME = task[t].cacheName
    /\ Generations(cacheStorage) = {CACHE_NAME}

\* C5: when an update that did not commit has returned, every client has been
\* posted a CACHE_UPDATE_FAILED by it and none a CACHE_UPDATED
C5_AbandonedUpdateReportsFailure ==
  \A t \in MessageIds :
    (Returned(t) /\ task[t].outcome \in {"abandoned", "failed"}) =>
       \A c \in controlled :
         /\ PostedBy(t, c, "CACHE_UPDATE_FAILED") # <<>>
         /\ PostedBy(t, c, "CACHE_UPDATED") = <<>>

\* an update whose caches.open was rejected has reported its failure
C5_OpenFailureReported ==
  \E t \in MessageIds :
    /\ Returned(t) /\ task[t].outcome = "failed"
    /\ \A c \in Clients : PostedBy(t, c, "CACHE_UPDATE_FAILED") # <<>>

\* the messages that the step posts to client c
NewlyPosted(c) == SubSeq(inbox'[c], Len(inbox[c]) + 1, Len(inbox'[c]))

Checked(t) ==
  /\ task[t].msg = "CHECK_VERSION"
  /\ task[t].pc \notin {"idle", "c_probe", "c_local"}

\* C7: checkForUpdate resolves to true exactly when the origin's version is
\* known and either no cached version is known or the two differ
C7_UpdateIffRemoteKnownAndDifferent ==
  \A t \in MessageIds :
    Checked(t) =>
      (task[t].hasUpdate <=>
         /\ task[t].remote # Null
         /\ task[t].local = Null \/ task[t].remote # task[t].local)

\* a check found the origin on an older version than the cached one, and
\* took it for an update
C7_OlderRemoteIsAnUpdate ==
  \E t \in MessageIds :
    /\ Checked(t) /\ task[t].hasUpdate
    /\ task[t].local # Null
    /\ StrLess(task[t].remote, task[t].local)

\* C8: a CHECK_VERSION whose probe of the origin fails, or finds the version
\* the cache already has, creates and deletes no cache, leaves CACHE_NAME and
\* CURRENT_VERSION alone and posts nothing
C8_CheckWithoutUpdateChangesNothing ==
  \A t \in MessageIds :
    (/\ task[t].msg = "CHECK_VERSION" /\ task[t].pc = "done"
     /\ task[t].remote = Null \/ task[t].remote = task[t].local)
    => /\ cacheStorage = task[t].pre.store
       /\ CACHE_NAME = task[t].pre.name
       /\ CURRENT_VERSION = task[t].pre.version
       /\ \A c \in Clients : \A k \in DOMAIN inbox[c] : inbox[c][k].by # t
       /\ task[t].acks = <<>>

\* a check has found the origin on the cached version and has finished
C8_CheckFoundSameVersion ==
  \E t \in MessageIds :
    /\ task[t].msg = "CHECK_VERSION" /\ task[t].pc = "done"
    /\ task[t].remote # Null /\ task[t].remote = task[t].local
    /\ cacheStorage = task[t].pre.store /\ cacheStorage # <<>>

\* the origin serves a version descriptor that carries a version
RemoteKnown ==
  /\ ~origin.net.offline /\ ~origin.net.malformed
  /\ "/totem-test/version.json" \notin origin.net.missing

\* the version in the name of the generation with the greatest name
LatestCachedVersion ==
  LET latest == CHOOSE n \in Generations(cacheStorage) :
                  \A m \in Generations(cacheStorage) : m = n \/ StrLess(m, n)
  IN  SubSeq(latest, Len("totem-cache-") + 1, Len(latest))

\* flow t is inside initializeCacheName
Initializing(t) == task[t].pc \in {"i_probe", "i_local", "a_probe", "a_local"}

\* C9: when initializeCacheName returns, the pointer is ('totem-cache-' +
\* remote, remote) if the origin's version is known, else ('totem-cache-' +
\* local, local) if a generation is cached, else CACHE_NAME is
\* 'totem-cache-v1'; the install that follows opens a cache of that name
C9_InitializeResolvesPointer ==
  [][/\ \A t \in {InstallFlow, ActivateFlow} :
          (Initializing(t) /\ ~Initializing(t)') =>
             IF RemoteKnown
             THEN /\ CACHE_NAME' = "totem-cache-" \o origin.version
                  /\ CURRENT_VERSION' = origin.version
             ELSE IF Generations(cacheStorage) # {}
             THEN /\ CACHE_NAME' = "totem-cache-" \o LatestCachedVersion
                  /\ CURRENT_VERSION' = LatestCachedVersion
             ELSE /\ CACHE_NAME' = "totem-cache-v1"
                  /\ CURRENT_VERSION' = CURRENT_VERSION
     /\ (task[InstallFlow].pc = "i_open" /\ task'[InstallFlow].pc = "i_addAll")
        => /\ HasCache(cacheStorage', CACHE_NAME)
           /\ Names(cacheStorage') = Names(cacheStorage) \cup {CACHE_NAME}
    ]_vars

\* installing offline over a cached generation: the pointer names that
\* generation
C9_OfflineInstallKeepsCachedVersion ==
  /\ task[InstallFlow].pc = "i_open"
  /\ task[InstallFlow].remote = Null
  /\ Generations(cacheStorage) # {}
  /\ CACHE_NAME \in Generations(cacheStorage)
  /\ CURRENT_VERSION # Null

\* install and activate have both run to their end
InstalledAndActivated ==
  task[InstallFlow].pc = "done" /\ task[ActivateFlow].pc = "done"

\* install started without any generation, the origin reported a version and
\* every asset was fetched
FreshInstall ==
  /\ Generations(task[InstallFlow].pre.store) = {}
  /\ task[InstallFlow].remote # Null
  /\ task[InstallFlow].success = Assets

\* C10: from a Cache Storage without generations, with the origin reporting
\* version R and every asset fetched, install followed by activate leave
\* exactly the generation 'totem-cache-' + R, holding every asset of the
\* manifest, and the pointer ('totem-cache-' + R, R)
C10_FreshInstallMakesOneGeneration ==
  (InstalledAndActivated /\ FreshInstall) =>
    LET R == task[InstallFlow].remote
    IN  /\ Generations(cacheStorage) = {"totem-cache-" \o R}
        /\ \A i \in DOMAIN getAssets :
             getAssets[i] \in DOMAIN CacheNamed(cacheStorage, "totem-cache-" \o R).entries
        /\ CACHE_NAME = "totem-cache-" \o R
        /\ CURRENT_VERSION = R

\* a fresh install next to a cache of another application has been activated
C10_FreshInstallActivated ==
  /\ InstalledAndActivated /\ FreshInstall
  /\ swState = "activated"
  /\ "kiosk-fonts" \in Names(cacheStorage)
  /\ Cardinality(Names(cacheStorage)) = 2

---------------------------------------------------------------------------
(* Install under asset fetch failures *)

\* install has run to its end and the worker waits to be activated
InstallCompleted ==
  /\ task[InstallFlow].pc = "done"
  /\ task[InstallFlow].outcome = "committed"
  /\ swState = "installed"

\* C11: whatever assets fail to download, install runs to completion and the
\* generation named by CACHE_NAME then exists and holds exactly the assets
\* that were fetched with an ok status
C11_InstalledGenerationHoldsFetchedAssets ==
  InstallCompleted =>
    /\ HasCache(cacheStorage, CACHE_NAME)
    /\ DOMAIN CacheNamed(cacheStorage, CACHE_NAME).entries
         = task[InstallFlow].success

\* an install during which every download failed has completed, and its
\* generation exists
C11_InstallSurvivedEveryFailure ==
  /\ InstallCompleted
  /\ task[InstallFlow].success = {}
  /\ task[InstallFlow].next = Len(getAssets) + 1
  /\ HasCache(cacheStorage, CACHE_NAME)

---------------------------------------------------------------------------
(* The fetch handler: what a task answers with *)

\* task s handles an in-scope request for the version descriptor
ServesVersion(s) ==
  /\ task[s].msg = "fetch"
  /\ task[s].request.method = "GET"
  /\ IsVersionRequest(task[s].request.url)

\* task s handles an in-scope request for anything else
ServesAsset(s) ==
  /\ task[s].msg = "fetch"
  /\ task[s].request.method = "GET"
  /\ StartsWith(task[s].request.url, "http")
  /\ ~IsFavicon(task[s].request.url)
  /\ ~IsVersionRequest(task[s].request.url)

\* the network fetch of task s resolved with a response
FetchSucceeded(s) == task[s].network # NoResponse

\* the entry for url in the cache called name, <<>> when there is none
EntryIn(store, name, url) ==
  IF HasCache(store, name) /\ url \in DOMAIN CacheNamed(store, name).entries
  THEN <<CacheNamed(store, name).entries[url]>>
  ELSE <<>>

\* C12: a task serving the version descriptor whose network fetch succeeded
\* returns the network response, never a cached one, whatever happens to the
\* cache write that follows
C12_VersionServedFromNetwork ==
  \A s \in ServeIds :
    (ServesVersion(s) /\ task[s].pc = "done" /\ FetchSucceeded(s)) =>
      /\ task[s].source = "network"
      /\ task[s].response = task[s].network

\* the descriptor was answered from the network although the caches held an
\* older copy of it
C12_FreshDescriptorOverCachedCopy ==
  \E s \in ServeIds :
    /\ ServesVersion(s) /\ task[s].pc = "done" /\ FetchSucceeded(s)
    /\ task[s].source = "network"
    /\ CachesMatch(task[s].pre.store, "/totem-test/version.json") # <<>>
    /\ CachesMatch(task[s].pre.store, "/totem-test/version.json")[1].response
         # task[s].response

\* the path of the version descriptor, as the pages request it
DescriptorPath == "/totem-test/version.json"

\* task s answers its request in this step
Answers(s) == task[s].source = "none" /\ task'[s].source # "none"

PathOf(s) == Pathname(task[s].request.url)

\* the responses the caches hold for a path
CachedCopies(store, path) ==
  { EntryIn(store, n, path)[1] :
      n \in { m \in Names(store) : EntryIn(store, m, path) # <<>> } }

\* task s has answered from the cache and its refresh runs in the background
Refreshing(s) == ServesAsset(s) /\ task[s].pc \in {"b_fetch", "b_open", "b_put"}

\* the refresh of the path cannot succeed: the network fails or answers with
\* a status that is not ok, or the cache rejects the write
RefreshFails(path) ==
  origin.net.offline \/ path \in origin.net.missing \/ ~storageUp

\* C14: an in-scope request other than the version descriptor that has a
\* cached response is answered with it as soon as caches.match resolves,
\* before any network fetch; the refresh that follows never changes the
\* response returned and always ends; a refresh that fails leaves the entry
\* of every cache for that path unchanged
C14_CachedAnswerSurvivesRefresh ==
  [][\A s \in ServeIds :
       /\ (ServesAsset(s) /\ task[s].pc = "s_match" /\ task'[s].pc # "s_match"
             /\ CachedCopies(cacheStorage, PathOf(s)) # {}) =>
            /\ Answers(s)
            /\ task'[s].response \in CachedCopies(cacheStorage, PathOf(s))
            /\ task'[s].network = NoResponse
            /\ task'[s].pc = "b_fetch"
       /\ (Refreshing(s) /\ task'[s] # task[s]) =>
            /\ task'[s].response = task[s].response
            /\ task'[s].source = "cache"
            /\ task'[s].pc \in {"b_open", "b_put", "done"}
            /\ RefreshFails(PathOf(s)) =>
                 /\ task'[s].pc = "done" \/ ~origin.net.offline
                 /\ \A n \in Names(cacheStorage) \cup Names(cacheStorage') :
                      EntryIn(cacheStorage', n, PathOf(s))
                        = EntryIn(cacheStorage, n, PathOf(s))
    ]_vars

\* a cached page was returned and its refresh then failed on the network
C14_AnsweredThenRefreshFailed ==
  \E s \in ServeIds :
    /\ ServesAsset(s) /\ task[s].pc = "done"
    /\ task[s].source = "cache"
    /\ task[s].network = NoResponse
    /\ origin.net.offline
    /\ task[s].response \in CachedCopies(cacheStorage, PathOf(s))

\* task s found no cached response for its request and has finished
MissServed(s) ==
  ServesAsset(s) /\ task[s].pc = "done" /\ task[s].servedFrom = Null

\* C15: an in-scope request other than the version descriptor with no cached
\* response: when the network fetch succeeds with an ok status the response
\* is returned and stored in the generation CACHE_NAME names; when the fetch
\* fails the answer is 404 for a URL with a media extension and 503 otherwise
C15_MissStoredOrUnavailable ==
  \A s \in ServeIds :
    MissServed(s) =>
      IF FetchSucceeded(s)
      THEN Ok(task[s].network) =>
             /\ task[s].response = task[s].network
             /\ EntryIn(cacheStorage, CACHE_NAME, PathOf(s)) = <<task[s].network>>
      ELSE task[s].response.status = IF IsMedia(task[s].request.url) THEN 404
                                     ELSE 503

\* a media file that was not cached was fetched, stored in the generation
\* CACHE_NAME names and returned
C15_MediaFetchedAndStored ==
  \E s \in ServeIds :
    /\ MissServed(s) /\ IsMedia(task[s].request.url)
    /\ task[s].source = "network" /\ Ok(task[s].response)
    /\ task[s].wroteTo = CACHE_NAME
    /\ EntryIn(cacheStorage, CACHE_NAME, PathOf(s)) = <<task[s].response>>

---------------------------------------------------------------------------
(* Requests outside the intercept scope *)

\* the request is not a GET, or its URL does not start with http
PassedThrough(r) == r.method # "GET" \/ SubSeq(r.url, 1, 4) # "http"

\* a GET over http for a path ending in /favicon.ico
FaviconRequest(r) ==
  /\ ~PassedThrough(r)
  /\ Len(r.url) >= Len("/favicon.ico")
  /\ SubSeq(r.url, Len(r.url) - Len("/favicon.ico") + 1, Len(r.url))
       = "/favicon.ico"

\* task s has just received its fetch event
Received(s) == task'[s].msg = "fetch" /\ task'[s].pre # task[s].pre

\* C16: a request that is not a GET, whose URL does not start with http, or
\* whose path ends in /favicon.ico writes to no cache and starts no network
\* fetch: the handler ends in the step that receives it, leaving the first
\* two kinds unanswered and answering the favicon with an empty 204 response
C16_OutOfScopeLeftAlone ==
  /\ [](\A s \in ServeIds :
          (task[s].msg = "fetch"
             /\ (PassedThrough(task[s].request) \/ FaviconRequest(task[s].request)))
          => /\ task[s].pc = "done"
             /\ task[s].network = NoResponse
             /\ task[s].cacheName = Null /\ task[s].handle = Null
             /\ task[s].wroteTo = Null
             /\ IF PassedThrough(task[s].request)
                THEN task[s].source = "none" /\ task[s].response = NoResponse
                ELSE task[s].response = [status |-> 204, body |-> ""])
  /\ [][\A s \in ServeIds :
          (Received(s)
             /\ (PassedThrough(task'[s].request) \/ FaviconRequest(task'[s].request)))
          => cacheStorage' = cacheStorage]_vars

\* a favicon request has been answered with the empty response, and the
\* caches are as they were
C16_FaviconAnsweredEmpty ==
  \E s \in ServeIds :
    /\ task[s].msg = "fetch" /\ task[s].pc = "done"
    /\ FaviconRequest(task[s].request)
    /\ task[s].response.status = 204
    /\ cacheStorage = task[s].pre.store

---------------------------------------------------------------------------
(* Activating twice *)

\* the activate handler is running, or has run, for the second time
SecondActivate == task[ActivateFlow].msg = "activate again"

\* C17: a second run of the activate handler, with no update since the
\* first, leaves CACHE_NAME, CURRENT_VERSION and the caches as the first run
\* left them, whatever the install before did and whether or not the origin
\* can be reached at either run
C17_SecondActivateChangesNothing ==
  SecondActivate =>
    /\ CACHE_NAME = task[ActivateFlow].pre.name
    /\ CURRENT_VERSION = task[ActivateFlow].pre.version
    /\ cacheStorage = task[ActivateFlow].pre.store
    /\ task[ActivateFlow].pc \in {"a_keys", "a_claim", "done"}

\* an install that took the default name offline was activated offline, and
\* the handler has run again with the origin reachable
C17_DefaultNameActivatedTwice ==
  /\ SecondActivate /\ task[ActivateFlow].pc = "done"
  /\ task[InstallFlow].remote = Null /\ task[InstallFlow].local = Null
  /\ task[InstallFlow].pre.name = "totem-cache-v9"
  /\ CACHE_NAME = "totem-cache-v1"
  /\ ~origin.net.offline /\ ~origin.net.malformed /\ origin.net.missing = {}

---------------------------------------------------------------------------
(* The pointer: CACHE_NAME and CURRENT_VERSION *)

\* install has returned from initializeCacheName: the pointer has been set
PointerSet == task[InstallFlow].pc \notin {"idle", "i_probe", "i_local"}

\* C18: at every await of install, activate and the update, once the pointer
\* has been set, CACHE_NAME is 'totem-cache-' + CURRENT_VERSION
C18_NameAndVersionAgree ==
  PointerSet =>
    /\ CURRENT_VERSION # Null
    /\ CACHE_NAME = "totem-cache-" \o CURRENT_VERSION

\* an update has reassigned the pointer: name and version changed together
C18_UpdateMovedBoth ==
  \E t \in MessageIds :
    /\ task[t].pc = "u_keys"
    /\ task[t].target # task[t].before.version
    /\ CURRENT_VERSION = task[t].target
    /\ CACHE_NAME = "totem-cache-" \o task[t].target
    /\ task[t].before.name = "totem-cache-" \o task[t].before.version

---------------------------------------------------------------------------
(* Fetch events while an update runs *)

\* C19: a task of the fetch handler reads its cached response from, and
\* writes the fetched response to, the generation CACHE_NAME named when the
\* task started, even when an update reassigns CACHE_NAME between its awaits
C19_ServeUsesStartingGeneration ==
  \A s \in ServeIds :
    task[s].msg = "fetch" =>
      /\ task[s].servedFrom \in {Null, task[s].pre.name}
      /\ task[s].wroteTo \in {Null, task[s].pre.name}

\* a task that started before an update committed has read from and written
\* to the generation it started with
C19_ServedOldAcrossCommit ==
  \E s \in ServeIds :
    /\ task[s].msg = "fetch" /\ task[s].pc = "done"
    /\ task[s].pre.name # CACHE_NAME
    /\ task[s].servedFrom = task[s].pre.name
    /\ task[s].wroteTo = task[s].pre.name

\* flow t's update has opened the new generation and is filling it; CACHE_NAME
\* has not been reassigned
Populating(t) == task[t].pc \in {"u_download", "u_gate"}

\* C20: while an update is filling a new generation and has not reassigned
\* CACHE_NAME, a fetch task that answers with a cached response answers with
\* one stored in the generation CACHE_NAME names, never with one stored in
\* the generation being filled
C20_ServedFromPointedGeneration ==
  [][\A s \in ServeIds :
       (Answers(s) /\ task'[s].source = "cache"
          /\ \E t \in MessageIds : Populating(t))
       => task'[s].servedFrom = CACHE_NAME]_vars

\* during an update to another version a cached page was answered from the
\* generation CACHE_NAME names
C20_OldServedDuringUpdate ==
  \E s \in ServeIds, t \in MessageIds :
    /\ Populating(t) /\ task[t].next > 1
    /\ task[t].cacheName # CACHE_NAME
    /\ task[s].pc = "b_fetch"
    /\ task[s].servedFrom = CACHE_NAME
    /\ HasCache(task[s].pre.store, task[t].cacheName)

---------------------------------------------------------------------------
(* Two updates at once *)

\* flow t ran an update that passed the essential-files check and has finished
UpdateCommitted(t) ==
  /\ task[t].msg = "UPDATE_VERSION"
  /\ task[t].pc = "done"
  /\ task[t].outcome = "committed"

\* C21: when two updates for different versions have both passed the
\* essential-files check and finished, the pointer names one of the two
\* targets, the generation it names exists and holds the assets that update
\* downloaded, and no other prefixed cache exists
C21_RacingUpdatesLeaveOneGeneration ==
  \A t, u \in MessageIds :
    (UpdateCommitted(t) /\ UpdateCommitted(u) /\ task[t].target # task[u].target) =>
      \E w \in {t, u} :
        /\ CURRENT_VERSION = task[w].target
        /\ CACHE_NAME = "totem-cache-" \o task[w].target
        /\ HasCache(cacheStorage, CACHE_NAME)
        /\ task[w].success \subseteq DOMAIN CacheNamed(cacheStorage, CACHE_NAME).entries
        /\ Generations(cacheStorage) = {CACHE_NAME}

\* two updates for different versions overlapped, both committed, and the
\* later one's generation is the only one left
C21_OverlappingUpdatesBothCommitted ==
  \E t, u \in MessageIds :
    /\ UpdateCommitted(t) /\ UpdateCommitted(u)
    /\ task[t].target # task[u].target
    /\ HasCache(task[u].pre.store, "totem-cache-" \o task[t].target)
    /\ task[u].pre.name # "totem-cache-" \o task[t].target
    /\ Generations(cacheStorage) = {CACHE_NAME}
    /\ task[u].success \subseteq DOMAIN CacheNamed(cacheStorage, CACHE_NAME).entries

---------------------------------------------------------------------------
(* The UPDATE_VERSION message *)

\* what flow t has posted to the clients
PostedToClients(t) ==
  {c \in Clients : \E i \in DOMAIN inbox[c] : inbox[c][i].by = t}

\* C22: an UPDATE_VERSION message with a version V runs the update with target
\* V without probing the origin or the caches for a version; with a reply
\* port, one CACHE_UPDATE_COMPLETE {version: V} is posted on it and only when
\* the update has returned; without a version no update starts and nothing
\* changes
C22_UpdateVersionRunsTargetAndAcks ==
  \A t \in MessageIds :
    task[t].msg = "UPDATE_VERSION" =>
      /\ task[t].remote = Null /\ task[t].local = Null
      /\ IF task[t].target = Null
         THEN /\ task[t].pc = "done"
              /\ task[t].outcome = "none" /\ task[t].acks = <<>>
              /\ CACHE_NAME = task[t].pre.name
              /\ CURRENT_VERSION = task[t].pre.version
              /\ cacheStorage = task[t].pre.store
              /\ PostedToClients(t) = {}
         ELSE /\ task[t].cacheName = "totem-cache-" \o task[t].target
              /\ task[t].outcome = "committed" => CURRENT_VERSION = task[t].target
              /\ task[t].acks =
                   IF task[t].pc = "done" /\ task[t].port
                   THEN <<[type |-> "CACHE_UPDATE_COMPLETE",
                           version |-> task[t].target]>>
                   ELSE <<>>

\* an update asked for with a reply port has committed and acknowledged
C22_CommittedAndAcknowledged ==
  \E t \in MessageIds :
    /\ task[t].msg = "UPDATE_VERSION" /\ task[t].port
    /\ task[t].pc = "done" /\ task[t].outcome = "committed"
    /\ Len(task[t].acks) = 1
    /\ task[t].acks[1].version = CURRENT_VERSION
    /\ task[t].pre.version # CURRENT_VERSION

---------------------------------------------------------------------------
(* Serving while the storage is unavailable. *)

\* task s handles an intercepted request: an in-scope GET
Intercepted(s) == ServesVersion(s) \/ ServesAsset(s)

\* C23: every task serving an intercepted request ends with a response, from
\* the network, from a cache or constructed by the handler, whatever fails in
\* the network and in the storage: the promise given to respondWith never
\* rejects
C23_EveryServeEndsWithResponse ==
  \A s \in ServeIds :
    Intercepted(s) /\ task[s].pc = "done"
      => task[s].source \in {"network", "cache", "synthetic"}

\* an intercepted request was answered by the outer catch, after the lookup
\* threw
C23_AnsweredAfterLookupThrew ==
  \E s \in ServeIds :
    /\ ServesAsset(s)
    /\ task[s].pc = "done"
    /\ ~storageUp
    /\ task[s].response = InternalError

\* C24: a task whose cache lookup or whose open of the generation failed
\* answers with a 503 response: the answer given from the outer catch, and
\* the answer given when the open of the miss branch fails, is 503
C24_StorageFailureAnswered503 ==
  [][\A s \in ServeIds :
       /\ Answers(s)
       /\ \/ task[s].pc = "s_catch"
          \/ task[s].pc = "s_open" /\ ~storageUp
       => task'[s].response = Unavailable]_vars

\* a task answered after its open of the generation failed
C24_AnsweredAfterOpenFailed ==
  \E s \in ServeIds :
    /\ MissServed(s)
    /\ task[s].source = "network"
    /\ Ok(task[s].response)
    /\ task[s].wroteTo = Null
    /\ ~storageUp

---------------------------------------------------------------------------
(* getCachedVersion as a function of the Cache Storage *)

MaxCaches == 2       \* caches in the Cache Storage getCachedVersion is given

\* the caches the origin's Cache Storage can hold when getCachedVersion runs:
\* generations of the worker and caches of other scripts of the origin, each
\* with or without a stored /version.json
StoredCaches ==
  LET names == {CacheNameFor(v) : v \in Versions}
                 \cup {DefaultCacheName, "kiosk-fonts", "kiosk-media"}
      descriptor(v) ==
        [u \in {"/version.json"} |-> [status |-> 200, body |-> v]]
  IN  [name : names,
       entries : {NoEntries} \cup {descriptor(v) : v \in Versions}]

\* the storages of at most MaxCaches caches, no name twice
StoredStorages ==
  {store \in UNION {[1..n -> StoredCaches] : n \in 0..MaxCaches} :
     \A i, j \in DOMAIN store : store[i].name = store[j].name => i = j}

InitCached ==
  /\ CACHE_NAME = InitialCacheName
  /\ CURRENT_VERSION = Null
  /\ cacheStorage \in StoredStorages
  /\ origin \in [version : Versions, net : {NoFault}]
  /\ storageUp = TRUE
  /\ published = 0
  /\ swState = "parsed"
  /\ controlled = {}
  /\ inbox = [c \in Clients |-> <<>>]
  /\ handled = 0
  /\ task = [t \in TaskIds |-> Idle]

\* a call of getCachedVersion(), by flow t
GetCachedVersionCalled(t) ==
  /\ task[t].pc = "idle"
  /\ Becomes(t, [Idle EXCEPT !.msg = "getCachedVersion", !.pre = Snapshot,
                             !.local = getCachedVersion(cacheStorage),
                             !.pc = "done"])
  /\ UNCHANGED <<CACHE_NAME, CURRENT_VERSION, cacheStorage, origin, storageUp,
                 published, swState, controlled, inbox, handled>>

NextCached == \E t \in MessageIds : GetCachedVersionCalled(t)

SpecCached == InitCached /\ [][NextCached]_vars

\* the version of the descriptor stored in the newest cache of a storage
StoredDescriptorVersion(store) ==
  IF store = <<>> THEN Null
  ELSE LET entries == store[Len(store)].entries
       IN  IF "/version.json" \in DOMAIN entries /\ entries["/version.json"].body # ""
           THEN entries["/version.json"].body
           ELSE Null

\* flow t has called getCachedVersion
CalledGetCachedVersion(t) ==
  task[t].msg = "getCachedVersion" /\ task[t].pc = "done"

\* C25: when no cache has the prefix, getCachedVersion returns the version
\* of the descriptor stored in the newest cache, and null only when there is
\* no such descriptor; when prefixed caches exist it returns the suffix of
\* the greatest prefixed name
C25_FallsBackToStoredDescriptor ==
  \A t \in MessageIds :
    CalledGetCachedVersion(t) =>
      LET store == task[t].pre.store
          totemCaches == TotemCaches(CacheKeys(store))
          latest == SortReverseFirst(Range(totemCaches))
      IN  IF totemCaches = <<>>
          THEN task[t].local = StoredDescriptorVersion(store)
          ELSE task[t].local = SubSeq(latest, Len(CachePrefix) + 1, Len(latest))

\* getCachedVersion was called while no cache had the prefix and the newest
\* cache held a descriptor
C25_CalledWithoutPrefixedCache ==
  \E t \in MessageIds :
    /\ CalledGetCachedVersion(t)
    /\ TotemCaches(CacheKeys(task[t].pre.store)) = <<>>
    /\ StoredDescriptorVersion(task[t].pre.store) # Null

---------------------------------------------------------------------------
(* Termination of the update *)

\* flow t is inside updateCacheForNewVersion
Updating(t) == task[t].target # Null /\ InProgress(t)

\* flow t has left updateCacheForNewVersion: committed, with CACHE_UPDATED
\* posted to every controlled client, or without having committed (the
\* essential-files check failed, or the cache could not be opened)
UpdateFinished(t) ==
  /\ task[t].pc = "done"
  /\ \/ /\ task[t].outcome = "committed"
        /\ \A c \in controlled : PostedBy(t, c, "CACHE_UPDATED") # <<>>
     \/ task[t].outcome \in {"abandoned", "failed"}

\* C26: every update that was started finishes, committed or abandoned, when
\* each of its awaits settles: no update waits for another flow
C26_UpdateEventuallyFinishes ==
  \A t \in MessageIds : Updating(t) ~> UpdateFinished(t)

\* two updates have finished, the second of them started while the first had
\* opened its cache and not yet reassigned the pointer
C26_BothUpdatesFinished ==
  \E t, u \in MessageIds :
    /\ t # u
    /\ task[t].pc = "done" /\ task[t].outcome # "none"
    /\ task[u].pc = "done" /\ task[u].outcome # "none"
    /\ HasCache(task[u].pre.store, CacheNameFor(task[t].target))
    /\ task[u].pre.name # CacheNameFor(task[t].target)

---------------------------------------------------------------------------
(* The generation the pointer names, between flows *)

\* the install handler has run to completion
Installed == swState \in {"installed", "activating", "activated"}

\* C27: whenever install has completed and no flow is in progress, the
\* generation CACHE_NAME names is in the Cache Storage
C27_PointedGenerationPersisted ==
  (Installed /\ Quiet) => HasCache(cacheStorage, CACHE_NAME)

\* an update has committed and, with no flow in progress, the generation
\* CACHE_NAME names is in the Cache Storage
C27_PersistedAfterUpdate ==
  /\ Installed /\ Quiet
  /\ \E t \in MessageIds : Returned(t) /\ task[t].outcome = "committed"
  /\ HasCache(cacheStorage, CACHE_NAME)

\* C28: whenever no flow is in progress and the pointer has been set to a
\* version, getCachedVersion() returns CURRENT_VERSION, so that checkForUpdate
\* answers as the comparison of the origin's version with CURRENT_VERSION
C28_CachedVersionIsCurrent ==
  (Installed /\ Quiet /\ CURRENT_VERSION # Null) =>
    /\ getCachedVersion(cacheStorage) = CURRENT_VERSION
    /\ \A v \in Versions \cup {Null} :
         checkForUpdate(v, getCachedVersion(cacheStorage))
           = checkForUpdate(v, CURRENT_VERSION)

\* with no flow in progress after a committed update, getCachedVersion()
\* returns CURRENT_VERSION
C28_AgreeAfterUpdate ==
  /\ Installed /\ Quiet /\ CURRENT_VERSION # Null
  /\ \E t \in MessageIds : Returned(t) /\ task[t].outcome = "committed"
  /\ getCachedVersion(cacheStorage) = CURRENT_VERSION

---------------------------------------------------------------------------
(* What the fetch handler writes *)

\* C29: no step of a fetch task adds a cache to the Cache Storage: what a
\* task writes goes to a cache that install or an update created
C29_ServeCreatesNoGeneration ==
  [][\A s \in ServeIds :
       (InProgress(s) /\ task'[s] # task[s])
         => Names(cacheStorage') \subseteq Names(cacheStorage)]_vars

\* a fetch task has stored a response in the generation CACHE_NAME names,
\* which existed when the task began
C29_StoredInExistingGeneration ==
  \E s \in ServeIds :
    /\ task[s].pc = "done"
    /\ task[s].wroteTo = CACHE_NAME
    /\ HasCache(task[s].pre.store, CACHE_NAME)
    /\ Names(cacheStorage) = Names(task[s].pre.store)

\* C30: every entry of every generation holds a response with an ok status,
\* whoever wrote it: install, an update or a fetch task
C30_OnlyOkResponsesStored ==
  \A i \in DOMAIN cacheStorage :
    StartsWith(cacheStorage[i].name, CachePrefix) =>
      \A u \in DOMAIN cacheStorage[i].entries :
        cacheStorage[i].entries[u].status \in 200..299

\* a fetch task received a 404 response from the network and returned it,
\* and an update whose downloads partly failed has committed; the
\* generation CACHE_NAME names holds entries
C30_NonOkReceivedNotStored ==
  /\ \E s \in ServeIds :
       /\ task[s].pc = "done"
       /\ task[s].network.status = 404
       /\ task[s].wroteTo = Null
  /\ \E t \in MessageIds :
       /\ task[t].outcome = "committed"
       /\ task[t].success # Assets
  /\ HasCache(cacheStorage, CACHE_NAME)
  /\ DOMAIN CacheNamed(cacheStorage, CACHE_NAME).entries # {}

---------------------------------------------------------------------------
(* Caches of other scripts of the origin *)

\* the caches of a storage whose name does not have the prefix, with their
\* entries
ForeignCaches(store) ==
  SelectSeq(store, LAMBDA c : ~StartsWith(c.name, CachePrefix))

\* C31: no step of install, activate or an update deletes or writes a cache
\* whose name does not start with 'totem-cache-': these caches and their
\* entries stay as they were
C31_ForeignCachesUntouched ==
  [][ForeignCaches(cacheStorage') = ForeignCaches(cacheStorage)]_vars

\* a committed update has deleted a generation while a cache of another
\* script was in the Cache Storage, and that cache is still there as it was
C31_ForeignCacheSurvivedCleanup ==
  \E t \in MessageIds :
    /\ Returned(t) /\ task[t].outcome = "committed"
    /\ Generations(task[t].pre.store) \ Generations(cacheStorage) # {}
    /\ ForeignCaches(task[t].pre.store) # <<>>
    /\ ForeignCaches(cacheStorage) = ForeignCaches(task[t].pre.store)

---------------------------------------------------------------------------
(* The target of the update a check starts *)

\* the CHECK_VERSION handler of flow t has called updateCacheForNewVersion
CheckStartedUpdate(t) ==
  task[t].msg = "CHECK_VERSION" /\ task[t].target # Null

\* C32: the update a CHECK_VERSION handler starts is for the version that
\* checkForUpdate compared, and that target differs from the cached version
\* the check found, also when the origin publishes between the two probes
C32_UpdateTargetIsComparedVersion ==
  \A t \in MessageIds :
    CheckStartedUpdate(t) =>
      /\ task[t].target = task[t].remote
      /\ task[t].target # task[t].local

\* a check compared a version with a different cached one and the handler
\* started the update for the version compared
C32_UpdateForComparedVersion ==
  \E t \in MessageIds :
    /\ CheckStartedUpdate(t)
    /\ task[t].local # Null
    /\ task[t].target = task[t].remote
    /\ task[t].target # task[t].local

---------------------------------------------------------------------------
(* What a completion signal tells its receiver *)

\* after the step, the pointer is at version v and its generation is in the
\* Cache Storage
CommittedTo(v) ==
  CURRENT_VERSION' = v /\ HasCache(cacheStorage', CacheNameFor(v))

\* C33: with one update at a time, a step that posts UPDATE_AVAILABLE
\* {version: V} to a client or CACHE_UPDATE_COMPLETE {version: V} on a reply
\* port is taken only when the update for V has committed: CURRENT_VERSION is
\* V and the generation 'totem-cache-' + V is in the Cache Storage
C33_SignalOnlyAfterCommit ==
  [][/\ \A c \in Clients :
          \A i \in DOMAIN NewlyPosted(c) :
            NewlyPosted(c)[i].type = "UPDATE_AVAILABLE"
              => CommittedTo(NewlyPosted(c)[i].version)
      /\ \A t \in MessageIds :
           Len(task'[t].acks) > Len(task[t].acks)
             => CommittedTo(task'[t].acks[Len(task'[t].acks)].version)]_vars

\* a client holds UPDATE_AVAILABLE {version: V} posted by a check whose update
\* committed: CURRENT_VERSION is V and its generation is in the Cache Storage
C33_AvailableAfterCommit ==
  \E t \in MessageIds, c \in Clients :
    /\ task[t].msg = "CHECK_VERSION" /\ task[t].pc = "done"
    /\ task[t].outcome = "committed"
    /\ PostedBy(t, c, "UPDATE_AVAILABLE") # <<>>
    /\ CURRENT_VERSION = task[t].target
    /\ HasCache(cacheStorage, CacheNameFor(task[t].target))

====
